---------------------------- MODULE Spec2Model ----------------------------
(***************************************************************************)
(* Model of the analytics benchmark repository.                            *)
(*                                                                         *)
(*   - src/run_benchmarks.py : DatabaseBenchmark, the benchmark runner     *)
(*     (file discovery and ordering, per-file retry, error                 *)
(*     classification, reconnect, restart under the 'default' user).       *)
(*   - src/load/load_data.py : main, the loader main flow (readiness,      *)
(*     schema setup, bulk load, post-load step).                           *)
(*                                                                         *)
(* The specifications share the variables:                                 *)
(*   Spec          the benchmark run (run_benchmarks)                      *)
(*   SpecSort      get_sql_files alone, over a larger universe of          *)
(*                 filenames                                               *)
(*   SpecClassify  the except clause of execute_query_with_retry alone     *)
(*   SpecLoader    the loader main flow, no signal delivered               *)
(*   SpecSignal    the loader main flow when an interrupt can arrive       *)
(*   SpecEither    a run of either program                                 *)
(*   SpecUnit      the loader operations called one by one                 *)
(*   SpecProbe     one call of wait_for_connection (SpecProbeFair: every   *)
(*                 call into the backend and every sleep returns)          *)
(***************************************************************************)
EXTENDS Integers, Sequences, FiniteSets, TLC

(***************************************************************************)
(* Bounds                                                                  *)
(***************************************************************************)
\* largest number of entries of the queries folder in a benchmark run
MaxFiles == 2
\* largest number of entries of the queries folder when sorting alone
MaxSortFiles == 3
\* largest number of statements in one query file
MaxStmts == 2

(***************************************************************************)
(* Strings.  A Python str is a sequence of one-character strings; Ord      *)
(* gives the code point, which is what str comparison uses.                *)
(***************************************************************************)
Chars == {"-", ".", "0", "1", "2", "a", "l", "q", "s", "t", "x"}

Digits == {"0", "1", "2"}

Ord(c) ==
    CASE c = "-" -> 45
      [] c = "." -> 46
      [] c = "0" -> 48
      [] c = "1" -> 49
      [] c = "2" -> 50
      [] c = "a" -> 97
      [] c = "l" -> 108
      [] c = "q" -> 113
      [] c = "s" -> 115
      [] c = "t" -> 116
      [] c = "x" -> 120

\* str < str : the first differing character decides, a proper prefix is smaller
StrLess(a, b) ==
    \E i \in 1..Len(b) :
        /\ \A j \in 1..(i - 1) : j <= Len(a) /\ a[j] = b[j]
        /\ \/ i = Len(a) + 1
           \/ i <= Len(a) /\ Ord(a[i]) < Ord(b[i])

\* f.endswith(".sql")
EndsWithSql(f) ==
    /\ Len(f) >= 4
    /\ SubSeq(f, Len(f) - 3, Len(f)) = <<".", "s", "q", "l">>

\* x.split(".")[0] : the characters before the first "."
SplitDot0(x) ==
    LET dots == {i \in 1..Len(x) : x[i] = "."}
        first == IF dots = {} THEN Len(x) + 1
                 ELSE CHOOSE i \in dots : \A j \in dots : i <= j
    IN  SubSeq(x, 1, first - 1)

\* int(s) raises ValueError unless s is an optional sign followed by digits
\* (over Chars: no whitespace, "+" or "_" occurs in the modelled names)
IntParses(s) ==
    LET body == IF Len(s) > 0 /\ s[1] = "-" THEN Tail(s) ELSE s
    IN  /\ Len(body) > 0
        /\ \A i \in 1..Len(body) : body[i] \in Digits

RECURSIVE DigitsVal(_)
DigitsVal(s) ==
    IF s = <<>> THEN 0
    ELSE 10 * DigitsVal(SubSeq(s, 1, Len(s) - 1)) + (Ord(s[Len(s)]) - 48)

\* int(s) for a string that parses
IntOf(s) ==
    IF Len(s) > 0 /\ s[1] = "-" THEN 0 - DigitsVal(Tail(s)) ELSE DigitsVal(s)

\* the sort key of get_sql_files : int(x.split(".")[0])
NumKey(x) == IntOf(SplitDot0(x))

\* the comparison used by sorted(): by key when numeric, by str otherwise
SortLess(a, b, numeric) ==
    IF numeric THEN NumKey(a) < NumKey(b) ELSE StrLess(a, b)

\* sorted() is stable: x goes after every element that is not greater
RECURSIVE InsertSorted(_, _, _)
InsertSorted(x, s, numeric) ==
    IF s = <<>> THEN <<x>>
    ELSE IF SortLess(x, Head(s), numeric) THEN <<x>> \o s
    ELSE <<Head(s)>> \o InsertSorted(x, Tail(s), numeric)

RECURSIVE SortedSeq(_, _)
SortedSeq(s, numeric) ==
    IF s = <<>> THEN <<>>
    ELSE InsertSorted(s[Len(s)], SortedSeq(SubSeq(s, 1, Len(s) - 1), numeric), numeric)

\* [f for f in os.listdir(queries_folder) if f.endswith(".sql")]
SqlFilesOf(entries) == SelectSeq(entries, EndsWithSql)

\* the key function raises ValueError for some element
KeyRaises(files) == \E i \in 1..Len(files) : ~IntParses(SplitDot0(files[i]))

\* a wrong get_sql_files: falls back per file, numeric names first
get_sql_files_perfile(files) ==
    LET IsNum(f) == IntParses(SplitDot0(f))
        NotNum(f) == ~IntParses(SplitDot0(f))
    IN  SortedSeq(SelectSeq(files, IsNum), TRUE) \o SortedSeq(SelectSeq(files, NotNum), FALSE)

\* a wrong get_sql_files: always sorted as strings
get_sql_files_lexical(files) == SortedSeq(files, FALSE)

\* get_sql_files, the ordering part: try sorted(key=int prefix),
\* except ValueError: sorted(sql_files)
get_sql_files(files) ==
    IF KeyRaises(files) THEN SortedSeq(files, FALSE) ELSE SortedSeq(files, TRUE)

(***************************************************************************)
(* Filenames                                                               *)
(***************************************************************************)
Sql == <<".", "s", "q", "l">>

\* entries of the queries folder in a benchmark run
BenchNames == { <<"2">> \o Sql, <<"1", "0">> \o Sql, <<"a">> \o Sql }

\* entries of the queries folder when get_sql_files is checked alone
SortNames ==
    BenchNames \cup
    { <<"1">> \o Sql, <<"0", "1">> \o Sql, <<"-", "1">> \o Sql, <<"1", "a">> \o Sql, Sql,
      <<"2", ".", "x">> \o Sql, <<"1", ".", "t", "x", "t">> }

\* os.listdir: distinct names in arbitrary order
Listings(names, n) ==
    UNION { { s \in [1..k -> names] : \A i, j \in 1..k : i # j => s[i] # s[j] } : k \in 0..n }

(***************************************************************************)
(* State                                                                   *)
(***************************************************************************)
VARIABLES
    \* ---- benchmark run (src/run_benchmarks.py) ----
    folder_exists,       \* os.path.exists(queries_folder)
    listing,             \* os.listdir(queries_folder)
    sql_files,           \* the list returned by get_sql_files
    db_user,             \* self.db_config["user"]
    pc,                  \* position in run_benchmarks
    pass,                \* "primary": run_benchmarks, "restart": _restart_with_default_user
    idx,                 \* position of the for loop over sql_files (1-based)
    attempt,             \* loop variable of execute_query_with_retry (0-based)
    stmt,                \* next statement of the current file (1-based)
    nstmts,              \* number of statements of the current file
    conn,                \* self.conn   (0 = None, otherwise a connection id)
    cursor,              \* self.cursor (0 = None, otherwise the id of its connection)
    open_conns,          \* connections opened and not closed
    open_cursors,        \* cursors opened and not closed
    tainted,             \* a memory-limit error was raised on self.conn
    successful_queries,  \* local list of the running pass
    failed_queries,      \* local list of the running pass
    exit_code,           \* -1 while running, otherwise the process exit status
    summary_printed,     \* _print_summary was called
    \* ---- history of the benchmark run ----
    errs,                \* how each failed attempt of the current file was handled
    prev_conn,           \* connection on which the last failed attempt ran
    last,                \* the file recorded by the last step, if any
    last_exec,           \* file of the statement executed last in this pass
    restarts,            \* calls of _restart_with_default_user
    downgrades,          \* times db_config["user"] was replaced by 'default'
    authfail_root,       \* an authorization error was raised to run_benchmarks under 'root'
    auth2,               \* authorization failure under 'default' after a downgrade
    primary_ok,          \* files that had succeeded under the primary pass at the restart
    commits,             \* self.conn.commit() calls made for the file being executed
    caught,              \* the Error bound by "except mysql.connector.Error as err" (OK outside the clause)
    \* ---- loader (src/load/load_data.py) ----
    l_pc,                \* position in main, or in the operation being called
    caller,              \* "main", or "unit" when the operations are called one by one
    database,            \* args.database, the identifier given to create_loader
    loader,              \* the loader class create_loader returned ("none" before)
    db_name,             \* args.database_name (config.database)
    skip_schema,         \* args.skip_schema
    csv_files,           \* the files of the csv directory
    connection_timeout,  \* args.connection_timeout, or the timeout a direct caller passes
    max_calls,           \* calls a direct caller makes on the loader
    l_trace,             \* loader operations invoked so far, in order
    returns,             \* the calls that have returned or raised, in order
    snaps,               \* the server state at each of these returns
    l_exit,              \* -1 while running, otherwise the process exit status
    srv,                 \* the databases of the server: existence, tables, row counts
    \* create_database_and_tables
    srv0,                \* the server state when create_database_and_tables began
    ddl_next,            \* index in sql_commands of the next statement (0: not running)
    ddl_log,             \* the statements executed by the current/last schema setup
    ddl_failed,          \* index of the statement that raised (0: none)
    ddl_executed,        \* DDL statements executed by create_database_and_tables
    \* wait_for_connection
    timeout,             \* the timeout in effect in wait_for_connection
    clock,               \* time.time() - start_time
    polled,              \* test_connection was called by the current/last wait
    slept,               \* time.sleep was called by the current/last wait
    ext_cmds,            \* external commands run by the current/last wait
    probe_obs,           \* what the last call of test_connection observed and returned
    \* load_data
    load_calls,          \* calls of loader.load_data
    load_state,          \* per table: "none", "pending", "ok", "skipped" or "failed"
    load_table,          \* the table the last table load was for ("none" before)
    load_obs,            \* what the last table load met
    srv_load0,           \* the server state when load_data began
    cwd,                 \* the working directory of the process
    original_cwd,        \* original_cwd of TiDBLoader.load_data ("none" before the call)
    l_ready,             \* what the readiness check returned ("unknown" before it)
    config,              \* user and password of the DatabaseConfig object
    sigint               \* "off": no interrupt signal in this run; "armed": one can
                         \* arrive; "raised": KeyboardInterrupt was raised

benchVars ==
    << folder_exists, listing, sql_files, db_user, pc, pass, idx, attempt, stmt,
       nstmts, conn, cursor, open_conns, open_cursors, tainted, successful_queries,
       failed_queries, exit_code, summary_printed, errs, prev_conn,
       last, last_exec, restarts, downgrades, authfail_root, auth2, primary_ok,
       commits, caught >>

runVars ==
    << caller, database, db_name, skip_schema, csv_files, connection_timeout, max_calls >>

cfgVars == << runVars, sigint >>

schemaVars == << srv0, ddl_next, ddl_log, ddl_failed, ddl_executed >>

probeVars == << timeout, clock, polled, slept, ext_cmds, probe_obs >>

loadVars ==
    << load_calls, load_state, load_table, load_obs, srv_load0, cwd, original_cwd >>

loaderVars ==
    << l_pc, loader, config, l_trace, returns, snaps, l_exit, srv, l_ready,
       cfgVars, schemaVars, probeVars, loadVars >>

vars == << benchVars, loaderVars >>

(***************************************************************************)
(* Constants of src/run_benchmarks.py                                      *)
(***************************************************************************)
MAX_RETRIES == 3

\* the "user" entries of DATABASE_CONNECTIONS (an override may set any of them)
Users == {"root", "admin", "default"}

(***************************************************************************)
(* Outcomes of a call into mysql.connector: success, or an Error whose     *)
(* message contains a memory pattern (mem), a timeout pattern (to), an     *)
(* authentication pattern (auth), in any combination.                      *)
(***************************************************************************)
OK == [fail |-> FALSE, mem |-> FALSE, to |-> FALSE, auth |-> FALSE]

Errors == [fail : {TRUE}, mem : BOOLEAN, to : BOOLEAN, auth : BOOLEAN]

Outcomes == {OK} \cup Errors

\* outcomes of mysql.connector.connect (only the auth pattern is looked at)
ConnOutcomes == {o \in Outcomes : ~o.mem /\ ~o.to}

is_auth_error(err) == err.auth

is_memory_error(err) == err.mem

is_timeout_error(err) == err.to

\* a wrong classification: a timeout is not seen as transient
IsTransient_memonly(err) == is_memory_error(err)

\* the condition of the first branch of the except clause
IsTransient(err) == is_memory_error(err) \/ is_timeout_error(err)

\* a wrong retry guard: one retry more
RetryRemains_extra(a) == a < MAX_RETRIES

\* a wrong retry guard: one retry fewer
RetryRemains_short(a) == a < MAX_RETRIES - 2

\* "if attempt < MAX_RETRIES - 1"
RetryRemains(a) == a < MAX_RETRIES - 1

\* a wrong reconnect rule: never reconnect
ReconnectBeforeRetry_never(err) == FALSE

\* a wrong reconnect rule: reconnect after every transient failure
ReconnectBeforeRetry_always(err) == TRUE

\* "Reconnect for memory errors": cursor and connection are closed before the retry
ReconnectBeforeRetry(err) == is_memory_error(err)

\* a wrong privilege rule: the error is never raised to the main loop
RaisesToMainLoop_never(err, user) == FALSE

\* "elif self._is_auth_error(err) and self.db_config['user'] == 'root': raise"
RaisesToMainLoop(err, user) == is_auth_error(err) /\ user = "root"

\* a wrong except clause: the privilege test comes first
Decision_authfirst(err, a, user) ==
    IF RaisesToMainLoop(err, user) THEN "raise"
    ELSE IF IsTransient(err) THEN
        IF RetryRemains(a) THEN "retry" ELSE "exhausted"
    ELSE "error"

\* a wrong except clause: every error is retried while a retry remains
Decision_retryall(err, a, user) ==
    IF RetryRemains(a) THEN "retry" ELSE "exhausted"

\* what the except clause of execute_query_with_retry does with an error
Decision(err, a, user) ==
    IF IsTransient(err) THEN
        IF RetryRemains(a) THEN "retry" ELSE "exhausted"
    ELSE IF RaisesToMainLoop(err, user) THEN "raise"
    ELSE "error"

\* the kind of failure, as the except clause distinguishes it
Kind(err, user) ==
    IF is_memory_error(err) THEN "memory"
    ELSE IF is_timeout_error(err) THEN "timeout"
    ELSE IF is_auth_error(err) /\ user = "root" THEN "auth_primary"
    ELSE IF is_auth_error(err) THEN "auth"
    ELSE "other"

TransientKinds == {"memory", "timeout"}

\* a wrong _connect_with_fallback: a rejected 'default' is followed by 'admin'
connect_with_fallback_third(user, r1, r2) ==
    IF ~r1.fail THEN [ok |-> TRUE, user |-> user, err |-> OK]
    ELSE IF is_auth_error(r1) /\ user # "default" THEN
        IF ~r2.fail THEN [ok |-> TRUE, user |-> "default", err |-> OK]
        ELSE [ok |-> TRUE, user |-> "admin", err |-> OK]
    ELSE IF is_auth_error(r1) THEN [ok |-> TRUE, user |-> "admin", err |-> OK]
    ELSE [ok |-> FALSE, user |-> user, err |-> r1]

\* _connect_with_fallback: r1 is the outcome of the first connect, r2 of the
\* connect as 'default'; ok = FALSE stands for sys.exit(1)
connect_with_fallback(user, r1, r2) ==
    IF ~r1.fail THEN [ok |-> TRUE, user |-> user, err |-> OK]
    ELSE IF is_auth_error(r1) /\ user # "default" THEN
        IF ~r2.fail THEN [ok |-> TRUE, user |-> "default", err |-> OK]
        ELSE [ok |-> FALSE, user |-> "default", err |-> r2]
    ELSE [ok |-> FALSE, user |-> user, err |-> r1]

\* what open(...).read() gives for a query file
Contents ==
    { [read |-> "FileNotFoundError", blank |-> FALSE, n |-> 0],
      [read |-> "UnicodeDecodeError", blank |-> FALSE, n |-> 0],
      [read |-> "ok", blank |-> TRUE, n |-> 0] }
    \cup [read : {"ok"}, blank : {FALSE}, n : 0..MaxStmts]

NoRecord == [file |-> <<>>, outcome |-> "none", errs |-> <<>>, tries |-> 0]

SeqToSet(s) == {s[i] : i \in 1..Len(s)}

(***************************************************************************)
(* The benchmark run                                                       *)
(***************************************************************************)
\* the database names a run can be given: the default of --database-name
\* and any other name
DbNames == {"bts", "other"}

\* table_name of the three loads; the tables of sql_commands
TableNames == <<"airlines", "airports", "flights">>

TableSet == {TableNames[i] : i \in 1..Len(TableNames)}

\* row count -1 stands for a table that does not exist
NoTables == [t \in TableSet |-> -1]

\* a database name the server does not know
Absent == [exists |-> FALSE, rows |-> NoTables]

\* a file <db>.<table>.csv of the csv directory
CsvFile(db, t) == [db |-> db, table |-> t]

\* REQUIRED_CSV_FILES: bts.airlines.csv, bts.airports.csv, bts.flights.csv
REQUIRED_CSV_FILES == {CsvFile("bts", t) : t \in TableSet}

\* a check that is content with any file in the directory
csv_present_any == csv_files # {}

\* verify_csv_files finds the directory and the three files
csv_present == REQUIRED_CSV_FILES \subseteq csv_files

\* no table load yet
NoLoadObs == [transport |-> FALSE, http |-> 0, status |-> "none", rc |-> 0,
              stderr |-> "", filtered |-> 0, count_ok |-> FALSE]

\* no call of test_connection yet
NoObs == [connect |-> FALSE, select |-> FALSE, show |-> FALSE, backends |-> <<>>,
          result |-> FALSE]

\* the defaults of --user and --password
DefaultConfig == [user |-> "root", password |-> ""]

LoaderIdle ==
    /\ l_pc = "idle"
    /\ config = DefaultConfig
    /\ sigint = "off"
    /\ caller = "main"
    /\ database = "doris"
    /\ loader = "none"
    /\ db_name = "bts"
    /\ skip_schema = FALSE
    /\ csv_files = REQUIRED_CSV_FILES
    /\ connection_timeout = 60
    /\ max_calls = 0
    /\ timeout = 0
    /\ clock = 0
    /\ polled = FALSE
    /\ slept = FALSE
    /\ ext_cmds = 0
    /\ probe_obs = NoObs
    /\ l_trace = <<>>
    /\ returns = <<>>
    /\ snaps = << [d \in DbNames |-> Absent] >>
    /\ l_exit = -1
    /\ srv = [d \in DbNames |-> Absent]
    /\ srv0 = [d \in DbNames |-> Absent]
    /\ ddl_next = 0
    /\ ddl_log = <<>>
    /\ ddl_failed = 0
    /\ ddl_executed = 0
    /\ load_calls = 0
    /\ load_state = [t \in TableSet |-> "none"]
    /\ load_table = "none"
    /\ load_obs = NoLoadObs
    /\ srv_load0 = [d \in DbNames |-> Absent]
    /\ cwd = "elsewhere"
    /\ original_cwd = "none"
    /\ l_ready = "unknown"

\* the state after DatabaseBenchmark.__init__, for a queries folder `entries`
BenchStart(entries) ==
    /\ folder_exists \in BOOLEAN
    /\ listing \in entries
    /\ folder_exists = FALSE => listing = <<>>
    /\ sql_files = <<>>
    /\ db_user \in Users
    /\ pc = "start"
    /\ pass = "primary"
    /\ idx = 1
    /\ attempt = 0
    /\ stmt = 1
    /\ nstmts = 0
    /\ conn = 0
    /\ cursor = 0
    /\ open_conns = {}
    /\ open_cursors = {}
    /\ tainted = FALSE
    /\ successful_queries = <<>>
    /\ failed_queries = <<>>
    /\ exit_code = -1
    /\ summary_printed = FALSE
    /\ errs = <<>>
    /\ prev_conn = 0
    /\ last = NoRecord
    /\ last_exec = <<>>
    /\ restarts = 0
    /\ downgrades = 0
    /\ authfail_root = FALSE
    /\ auth2 = "none"
    /\ primary_ok = {}
    /\ commits = 0
    /\ caught = OK

Init == BenchStart(Listings(BenchNames, MaxFiles)) /\ LoaderIdle

unchangedHistory ==
    UNCHANGED << errs, prev_conn, last, last_exec, restarts, downgrades,
                 authfail_root, auth2, primary_ok, commits, caught >>

\* get_sql_files, called first by run_benchmarks: sys.exit(1) when the folder
\* is missing or holds no .sql file, the ordered list otherwise
GetSqlFiles ==
    /\ pc = "start"
    /\ IF ~folder_exists \/ SqlFilesOf(listing) = <<>>
       THEN /\ pc' = "done"
            /\ exit_code' = 1
            /\ UNCHANGED sql_files
       ELSE /\ sql_files' = get_sql_files(SqlFilesOf(listing))
            /\ pc' = "connect"
            /\ UNCHANGED exit_code
    /\ UNCHANGED << folder_exists, listing, db_user, pass, idx, attempt, stmt, nstmts,
                    conn, cursor, open_conns, open_cursors, tainted, successful_queries,
                    failed_queries, summary_printed >>
    /\ unchangedHistory
    /\ UNCHANGED loaderVars

\* sys.exit(1) raised inside "with self.connection()": the finally clause
\* closes self.cursor and self.conn, then the process ends with status 1
ExitInsideWith ==
    /\ open_cursors' = open_cursors \ {cursor}
    /\ open_conns' = open_conns \ {conn}
    /\ pc' = "done"
    /\ exit_code' = 1
    /\ UNCHANGED << conn, cursor, tainted >>

\* the identity of a new connection object: one that no live reference holds
NewConn ==
    LET used == open_conns \cup open_cursors \cup {conn, cursor, prev_conn}
    IN  CHOOSE i \in 1..(Cardinality(used) + 1) :
            /\ i \notin used
            /\ \A j \in 1..(i - 1) : j \in used

\* a connection was established: self.conn and self.cursor are replaced
Established ==
    /\ conn' = NewConn
    /\ cursor' = NewConn
    /\ open_conns' = open_conns \cup {NewConn}
    /\ open_cursors' = open_cursors \cup {NewConn}
    /\ tainted' = FALSE

\* the bookkeeping of a call of _connect_with_fallback with result c
Connected(c) ==
    /\ db_user' = c.user
    /\ downgrades' = IF c.user # db_user THEN downgrades + 1 ELSE downgrades
    /\ auth2' = IF ~c.ok /\ is_auth_error(c.err) /\ c.user = "default"
                   /\ (downgrades > 0 \/ c.user # db_user)
                THEN "connect" ELSE auth2

\* entering "with self.connection()" in run_benchmarks or in
\* _restart_with_default_user
Connect ==
    /\ pc = "connect"
    /\ \E r1, r2 \in ConnOutcomes :
         LET c == connect_with_fallback(db_user, r1, r2)
         IN  /\ Connected(c)
             /\ IF c.ok
                THEN /\ Established
                     /\ pc' = "loop"
                     /\ UNCHANGED exit_code
                ELSE ExitInsideWith
    /\ UNCHANGED << folder_exists, listing, sql_files, pass, idx, attempt, stmt, nstmts,
                    successful_queries, failed_queries, summary_printed >>
    /\ UNCHANGED << errs, prev_conn, last, last_exec, restarts,
                    authfail_root, primary_ok, commits, caught >>
    /\ UNCHANGED loaderVars

\* failed_queries.append(sql_file), then the next iteration of the for loop
RecordFailure(es) ==
    /\ failed_queries' = Append(failed_queries, sql_files[idx])
    /\ last' = [file |-> sql_files[idx], outcome |-> "failed", errs |-> es,
                tries |-> IF pc = "loop" THEN 0 ELSE attempt + 1]
    /\ idx' = idx + 1
    /\ pc' = "loop"
    /\ UNCHANGED successful_queries

\* successful_queries.append(...), then the next iteration of the for loop
RecordSuccess ==
    /\ successful_queries' = Append(successful_queries, sql_files[idx])
    /\ last' = [file |-> sql_files[idx], outcome |-> "success", errs |-> errs,
                tries |-> attempt + 1]
    /\ idx' = idx + 1
    /\ pc' = "loop"
    /\ UNCHANGED failed_queries

\* one iteration of the for loop over sql_files, up to the call of
\* execute_query_with_retry
ReadFile ==
    /\ pc = "loop"
    /\ idx <= Len(sql_files)
    /\ \E content \in Contents :
         IF content.read # "ok"
         THEN /\ RecordFailure(<<>>)
              /\ UNCHANGED nstmts
         ELSE IF content.blank /\ pass = "primary"
         THEN /\ idx' = idx + 1
              /\ last' = NoRecord
              /\ UNCHANGED << pc, successful_queries, failed_queries, nstmts >>
         ELSE /\ pc' = "attempt"
              /\ nstmts' = content.n
              /\ last' = NoRecord
              /\ UNCHANGED << idx, successful_queries, failed_queries >>
    /\ attempt' = 0
    /\ stmt' = 1
    /\ errs' = <<>>
    /\ prev_conn' = 0
    /\ UNCHANGED << folder_exists, listing, sql_files, db_user, pass, conn, cursor,
                    open_conns, open_cursors, tainted, exit_code, summary_printed >>
    /\ commits' = 0
    /\ UNCHANGED caught
    /\ UNCHANGED << last_exec, restarts, downgrades, authfail_root, auth2,
                    primary_ok >>
    /\ UNCHANGED loaderVars

\* a wrong attempt: it resumes at the statement that failed
first_statement_resume(k) == k

\* "for statement in statements" of _execute_statements: every call iterates
\* over the whole script, whatever statement k the attempt before failed at
first_statement(k) == 1

\* the start of one attempt: "if not self.conn or not self.conn.is_connected()"
\* reconnects (a connection is connected until the runner closes it); a
\* script without statements succeeds at once
BeginAttempt ==
    /\ pc = "attempt"
    /\ IF conn = 0 \/ conn \notin open_conns
       THEN \E r1, r2 \in ConnOutcomes :
              LET c == connect_with_fallback(db_user, r1, r2)
              IN  /\ Connected(c)
                  /\ IF c.ok
                     THEN /\ Established
                          /\ UNCHANGED exit_code
                          /\ IF nstmts = 0
                             THEN RecordSuccess
                             ELSE /\ pc' = "stmt"
                                  /\ UNCHANGED << idx, last, successful_queries,
                                                  failed_queries >>
                     ELSE /\ ExitInsideWith
                          /\ UNCHANGED << idx, last, successful_queries, failed_queries >>
       ELSE /\ UNCHANGED << db_user, downgrades, auth2, conn, cursor, open_conns,
                            open_cursors, tainted, exit_code >>
            /\ IF nstmts = 0
               THEN RecordSuccess
               ELSE /\ pc' = "stmt"
                    /\ UNCHANGED << idx, last, successful_queries, failed_queries >>
    /\ stmt' = first_statement(stmt)
    /\ UNCHANGED << folder_exists, listing, sql_files, pass, attempt, nstmts,
                    summary_printed >>
    /\ UNCHANGED << errs, prev_conn, last_exec, restarts, authfail_root,
                    primary_ok >>
    /\ commits' = IF pc' = "stmt" THEN commits ELSE 0
    /\ UNCHANGED caught
    /\ UNCHANGED loaderVars

\* a wrong restart: the loop resumes at the file that was rejected
RestartWithDefaultUser_resume ==
    /\ db_user' = "default"
    /\ downgrades' = IF db_user # "default" THEN downgrades + 1 ELSE downgrades
    /\ restarts' = restarts + 1
    /\ primary_ok' = SeqToSet(successful_queries)
    /\ commits' = 0
    /\ successful_queries' = <<>>
    /\ failed_queries' = <<>>
    /\ last' = NoRecord
    /\ last_exec' = <<>>
    /\ pass' = "restart"
    /\ idx' = idx
    /\ pc' = "connect"

\* the except clause of run_benchmarks calls _restart_with_default_user: the
\* user becomes 'default', the lists start empty, the loop starts again
RestartWithDefaultUser ==
    /\ db_user' = "default"
    /\ downgrades' = IF db_user # "default" THEN downgrades + 1 ELSE downgrades
    /\ restarts' = restarts + 1
    /\ primary_ok' = SeqToSet(successful_queries)
    /\ commits' = 0
    /\ successful_queries' = <<>>
    /\ failed_queries' = <<>>
    /\ last' = NoRecord
    /\ last_exec' = <<>>
    /\ pass' = "restart"
    /\ idx' = 1
    /\ pc' = "connect"

\* cursor.execute(statement) ... self.conn.commit() for one statement, with
\* what follows it: the next statement, the success of the file, or the
\* except clause of execute_query_with_retry and its caller
ExecStatement ==
    /\ pc = "stmt"
    /\ \E r \in Outcomes :
         IF ~r.fail
         THEN /\ last_exec' = sql_files[idx]
              /\ IF stmt < nstmts
                 THEN /\ stmt' = stmt + 1
                      /\ commits' = commits + 1
                      /\ UNCHANGED << pc, idx, last, successful_queries, failed_queries >>
                 ELSE /\ RecordSuccess
                      /\ commits' = 0
                      /\ UNCHANGED stmt
              /\ UNCHANGED << db_user, pass, attempt, open_conns, open_cursors, errs,
                              prev_conn, tainted, restarts, downgrades, authfail_root,
                              auth2, primary_ok >>
         ELSE LET d == Decision(r, attempt, db_user)
                  es == Append(errs, Kind(r, db_user))
              IN  /\ errs' = es
                  /\ prev_conn' = conn
                  /\ tainted' = (tainted \/ is_memory_error(r))
                  /\ authfail_root' = (authfail_root \/ Kind(r, db_user) = "auth_primary")
                  /\ UNCHANGED stmt
                  /\ CASE d = "retry" ->
                            /\ attempt' = attempt + 1
                            /\ pc' = "attempt"
                            /\ IF ReconnectBeforeRetry(r)
                               THEN /\ open_cursors' = open_cursors \ {cursor}
                                    /\ open_conns' = open_conns \ {conn}
                               ELSE UNCHANGED << open_cursors, open_conns >>
                            /\ last_exec' = sql_files[idx]
                            /\ UNCHANGED << db_user, pass, idx, last, successful_queries,
                                            failed_queries, restarts, downgrades,
                                            auth2, primary_ok, commits >>
                       [] d = "raise" /\ pass = "primary"
                                      /\ is_auth_error(r) /\ db_user = "root" ->
                            /\ RestartWithDefaultUser
                            /\ UNCHANGED << attempt, open_conns, open_cursors, auth2 >>
                       [] OTHER ->
                            /\ RecordFailure(es)
                            /\ last_exec' = sql_files[idx]
                            /\ auth2' = IF Kind(r, db_user) = "auth" /\ db_user = "default"
                                           /\ downgrades > 0
                                        THEN "exec" ELSE auth2
                            /\ commits' = 0
                            /\ UNCHANGED << db_user, pass, attempt, open_conns,
                                            open_cursors, restarts, downgrades,
                                            primary_ok >>
    /\ UNCHANGED << folder_exists, listing, sql_files, nstmts, conn, cursor,
                    exit_code, summary_printed, caught >>
    /\ UNCHANGED loaderVars

\* a wrong end of the run: the restart pass does not exit with status 1
Finish_noexit ==
    /\ pc = "loop"
    /\ idx > Len(sql_files)
    /\ open_cursors' = open_cursors \ {cursor}
    /\ open_conns' = open_conns \ {conn}
    /\ summary_printed' = TRUE
    /\ exit_code' = IF failed_queries # <<>> /\ pass = "primary" THEN 1 ELSE 0
    /\ pc' = "done"
    /\ UNCHANGED << folder_exists, listing, sql_files, db_user, pass, idx, attempt, stmt,
                    nstmts, conn, cursor, tainted, successful_queries, failed_queries >>
    /\ unchangedHistory
    /\ UNCHANGED loaderVars

\* the for loop is over: the with block closes cursor and connection,
\* _print_summary is called, and sys.exit(1) follows if failed_queries is
\* not empty (in run_benchmarks and in _restart_with_default_user alike)
Finish ==
    /\ pc = "loop"
    /\ idx > Len(sql_files)
    /\ open_cursors' = open_cursors \ {cursor}
    /\ open_conns' = open_conns \ {conn}
    /\ summary_printed' = TRUE
    /\ exit_code' = IF failed_queries # <<>> THEN 1 ELSE 0
    /\ pc' = "done"
    /\ UNCHANGED << folder_exists, listing, sql_files, db_user, pass, idx, attempt, stmt,
                    nstmts, conn, cursor, tainted, successful_queries, failed_queries >>
    /\ unchangedHistory
    /\ UNCHANGED loaderVars

Next ==
    \/ GetSqlFiles
    \/ Connect
    \/ ReadFile
    \/ BeginAttempt
    \/ ExecStatement
    \/ Finish

Spec == Init /\ [][Next]_vars

(***************************************************************************)
(* get_sql_files alone                                                     *)
(***************************************************************************)
InitSort ==
    /\ BenchStart(Listings(SortNames, MaxSortFiles))
    /\ folder_exists = TRUE
    /\ db_user = "root"
    /\ LoaderIdle

NextSort == GetSqlFiles

SpecSort == InitSort /\ [][NextSort]_vars

(***************************************************************************)
(* The except clause of execute_query_with_retry alone: any error, raised  *)
(* under any user at any attempt, and the branch the clause takes          *)
(***************************************************************************)
InitClassify ==
    /\ BenchStart({<<>>})
    /\ folder_exists = FALSE
    /\ LoaderIdle

\* a statement raises mysql.connector.Error at some attempt
RaiseError ==
    /\ pc = "start"
    /\ caught' \in Errors
    /\ attempt' \in 0..(MAX_RETRIES - 1)
    /\ pc' = "except"
    /\ UNCHANGED << folder_exists, listing, sql_files, db_user, pass, idx, stmt, nstmts,
                    conn, cursor, open_conns, open_cursors, tainted, successful_queries,
                    failed_queries, exit_code, summary_printed, errs, prev_conn,
                    last, last_exec, restarts, downgrades, authfail_root, auth2,
                    primary_ok, commits >>
    /\ UNCHANGED loaderVars

\* the if / elif / else of the except clause: pc names the branch taken
HandleError ==
    /\ pc = "except"
    /\ pc' = Decision(caught, attempt, db_user)
    /\ errs' = <<Kind(caught, db_user)>>
    /\ UNCHANGED << folder_exists, listing, sql_files, db_user, pass, idx, attempt, stmt,
                    nstmts, conn, cursor, open_conns, open_cursors, tainted,
                    successful_queries, failed_queries, exit_code, summary_printed,
                    prev_conn, last, last_exec, restarts, downgrades, authfail_root,
                    auth2, primary_ok, commits, caught >>
    /\ UNCHANGED loaderVars

NextClassify == RaiseError \/ HandleError

SpecClassify == InitClassify /\ [][NextClassify]_vars

(***************************************************************************)
(* The loader main flow (src/load/load_data.py, main)                      *)
(***************************************************************************)
\* valid_choices of DatabaseChoiceAction, the keys of create_loader
Databases == {"clickhouse", "tidb", "doris", "starrocks", "columnstore"}

CONNECTION_TIMEOUT == 60

STARROCKS_TIMEOUT == 120

DORIS_TIMEOUT == 120

RETRY_DELAY == 2

\* stands for None, the default of the timeout parameter of the Doris and
\* StarRocks wait_for_connection, and for a call without the argument
NoneTimeout == -1

\* --connection-timeout: zero, and the default
CliTimeouts == {0, 60}

\* the timeouts a direct caller of wait_for_connection passes
ProbeTimeouts == {0, 7, NoneTimeout}

\* an identifier that is not a key of create_loader's dictionary
Identifiers == Databases \cup {"postgres"}

\* a registry that falls back to its first entry
create_loader_fallback(id) == IF id \in Databases THEN id ELSE "clickhouse"

\* "if database not in loaders: raise ValueError", otherwise
\* loaders[database](config); "none" stands for the raise
create_loader(id) == IF id \in Databases THEN id ELSE "none"

\* the methods each loader class defines or inherits from DatabaseLoader
Methods(cls) ==
    {"test_connection", "create_database_and_tables", "load_data"}
        \cup (IF cls = "clickhouse" THEN {} ELSE {"wait_for_connection"})
        \cup (IF cls = "tidb" THEN {"set_tiflash_replica"} ELSE {})

\* sql_commands of create_database_and_tables: ClickHouse qualifies the
\* table names, the others select the database with USE
sql_commands(cls) ==
    IF cls = "clickhouse"
    THEN <<"drop_db", "create_db", "create_airlines", "create_airports", "create_flights">>
    ELSE <<"drop_db", "create_db", "use_db",
           "create_airlines", "create_airports", "create_flights">>

\* number of entries of sql_commands in create_database_and_tables
NumDDL(db) == IF db = "clickhouse" THEN 5 ELSE 6

\* the database the statements of sql_commands name: config.database,
\* except in ColumnStoreLoader, whose statements spell out bts
SchemaDb(cls, name) == IF cls = "columnstore" THEN "bts" ELSE name

\* the table a CREATE TABLE statement creates
CreatedTable(cmd) ==
    CASE cmd = "create_airlines" -> "airlines"
      [] cmd = "create_airports" -> "airports"
      [] cmd = "create_flights" -> "flights"

\* whether the server accepts the statement: CREATE without IF NOT EXISTS
\* needs the name to be free, USE and CREATE TABLE need the database
StmtValid(cmd, s, d) ==
    CASE cmd = "drop_db" -> TRUE
      [] cmd = "create_db" -> ~s[d].exists
      [] cmd = "use_db" -> s[d].exists
      [] OTHER -> s[d].exists /\ s[d].rows[CreatedTable(cmd)] = -1

\* the effect of an accepted statement on the server: DROP DATABASE IF
\* EXISTS removes the database with its tables, CREATE DATABASE makes an
\* empty one, CREATE TABLE makes an empty table
Effect(cmd, s, d) ==
    CASE cmd = "drop_db" -> [s EXCEPT ![d] = Absent]
      [] cmd = "create_db" -> [s EXCEPT ![d] = [exists |-> TRUE, rows |-> NoTables]]
      [] cmd = "use_db" -> s
      [] OTHER -> [s EXCEPT ![d].rows[CreatedTable(cmd)] = 0]

\* statements that only add what is missing and never drop
ApplyStmt_additive(cmd, s, d) ==
    [accepted |-> TRUE,
     state |-> CASE cmd = "drop_db" -> s
                 [] cmd = "create_db" -> IF s[d].exists THEN s ELSE Effect(cmd, s, d)
                 [] cmd = "use_db" -> s
                 [] OTHER -> IF s[d].rows[CreatedTable(cmd)] >= 0 THEN s
                             ELSE Effect(cmd, s, d)]

\* what the server does with a statement of sql_commands: it rejects it
\* and changes nothing, or accepts it and applies its effect
ApplyStmt(cmd, s, d) ==
    [accepted |-> StmtValid(cmd, s, d),
     state |-> IF StmtValid(cmd, s, d) THEN Effect(cmd, s, d) ELSE s]

\* the states a database can be in before a run: unknown to the server,
\* partially created, or complete with rows in its tables
DbStates0 ==
    { Absent,
      [exists |-> TRUE, rows |-> [NoTables EXCEPT !["airlines"] = 0]],
      [exists |-> TRUE, rows |-> [t \in TableSet |-> 1]] }

\* before a run at most one of the two names is known to the server
InitialServers ==
    {s \in [DbNames -> DbStates0] : \E d \in DbNames : s[d] = Absent}

\* the csv directory holds the required files, lacks the largest one, or
\* does not exist (no file at all)
CsvListings == {REQUIRED_CSV_FILES, REQUIRED_CSV_FILES \ {CsvFile("bts", "flights")}, {}}

\* the credentials a run is given: the defaults, or a password of its own
Configs == {DefaultConfig, [user |-> "root", password |-> "secret"]}

\* the constructor of the loader class: ColumnStoreLoader.__init__ replaces
\* the default credentials in the config object it was given ("self.config.user
\* = 'admin'"), the other constructors only keep the reference
loader_init(cls, cfg) ==
    IF cls = "columnstore" /\ cfg.user = "root" /\ cfg.password = ""
    THEN [user |-> "admin", password |-> "C0lumnStore!"]
    ELSE cfg

BenchIdle ==
    /\ BenchStart({<<>>})
    /\ folder_exists = FALSE
    /\ db_user = "root"

\* the directories a run can be started in: the project root (the parent
\* of the directory of load_data.py) or any other directory
Dirs == {"project_root", "elsewhere"}

\* nothing has been called yet; the working directory matters to the TiDB
\* loader alone
LoaderFresh ==
    /\ cwd \in (IF database = "tidb" THEN Dirs ELSE {"elsewhere"})
    /\ original_cwd = "none"
    /\ loader = "none"
    /\ l_trace = <<>>
    /\ returns = <<>>
    /\ l_exit = -1
    /\ srv \in InitialServers
    /\ snaps = <<srv>>
    /\ srv0 = srv
    /\ ddl_next = 0
    /\ ddl_log = <<>>
    /\ ddl_failed = 0
    /\ ddl_executed = 0
    /\ load_calls = 0
    /\ load_state = [t \in TableSet |-> "none"]
    /\ load_table = "none"
    /\ load_obs = NoLoadObs
    /\ srv_load0 = srv
    /\ l_ready = "unknown"
    /\ timeout = 0
    /\ clock = 0
    /\ polled = FALSE
    /\ slept = FALSE
    /\ ext_cmds = 0
    /\ probe_obs = NoObs

MainStart ==
    /\ BenchIdle
    /\ l_pc = "start"
    /\ caller = "main"
    /\ database \in Databases
    /\ db_name \in DbNames
    /\ skip_schema \in BOOLEAN
    /\ csv_files \in CsvListings
    /\ connection_timeout \in CliTimeouts
    /\ config \in Configs
    /\ max_calls = 0
    /\ LoaderFresh

\* a run of main that no signal interrupts
InitLoader == MainStart /\ sigint = "off"

\* "except Exception" of main, or an explicit sys.exit(1)
LoaderExit1 ==
    /\ l_pc' = "done"
    /\ l_exit' = 1

\* an operation of the loader returns (ok) or raises: main goes on to its
\* next step or to its exception handler, a direct caller gets control
\* back; snaps[i + 1] is the server state at the i-th return
Return(op, ok, state, next) ==
    /\ returns' = Append(returns, [op |-> op, ok |-> ok])
    /\ snaps' = Append(snaps, state)
    /\ IF caller = "main"
       THEN IF ok
            THEN /\ l_pc' = next
                 /\ l_exit' = IF next = "done" THEN 0 ELSE l_exit
            ELSE LoaderExit1
       ELSE /\ l_pc' = "unit"
            /\ UNCHANGED l_exit

\* verify_csv_files(), DatabaseConfig(...), create_loader(...)
VerifyCsvFiles ==
    /\ l_pc = "start"
    /\ IF csv_present
       THEN /\ l_pc' = "ready"
            /\ loader' = create_loader(database)
            /\ config' = loader_init(create_loader(database), config)
            /\ UNCHANGED l_exit
       ELSE /\ LoaderExit1
            /\ UNCHANGED << loader, config >>
    /\ UNCHANGED << l_trace, returns, snaps, srv, l_ready, cfgVars, schemaVars,
                    probeVars, loadVars >>
    /\ UNCHANGED benchVars

(* ---- the readiness check ---- *)
\* "timeout: int = CONNECTION_TIMEOUT", and "if timeout is None: timeout =
\* DORIS_TIMEOUT"
EffectiveTimeout(cls, arg) ==
    IF arg # NoneTimeout THEN arg
    ELSE CASE cls = "doris" -> DORIS_TIMEOUT
           [] cls = "starrocks" -> STARROCKS_TIMEOUT
           [] OTHER -> CONNECTION_TIMEOUT

\* a loop that polls again at once
SleepInterval_none(cls) == 0

\* the argument of time.sleep in the loop of wait_for_connection
SleepInterval(cls) ==
    CASE cls \in {"doris", "starrocks"} -> 5
      [] cls = "tidb" -> RETRY_DELAY
      [] OTHER -> 2

\* seconds a call of test_connection takes: it answers at once, or only
\* after a connect timeout
PollTimes == {0, 10}

\* rows of SHOW BACKENDS in one listing
MaxBackends == 2

\* the index the loader reads the Alive column at
AliveColumn(cls) == IF cls = "doris" THEN 9 ELSE 8

Flags == {"true", "True", "false"}

\* str(x).lower()
Lower(x) == IF x = "True" THEN "true" ELSE x

\* a row of n columns with the given value at (zero-based) index col
MkRow(n, col, flag) == [i \in 1..n |-> IF i = col + 1 THEN flag ELSE "-"]

\* rows a listing can hold: with the Alive column, or too short to have it
BackendRows(cls) ==
    {MkRow(AliveColumn(cls) + 1, AliveColumn(cls), f) : f \in Flags}
        \cup {MkRow(AliveColumn(cls), AliveColumn(cls), "true")}

RECURSIVE SeqsUpTo(_, _)
SeqsUpTo(S, n) ==
    IF n = 0 THEN {<<>>}
    ELSE LET shorter == SeqsUpTo(S, n - 1)
         IN  shorter \cup {Append(q, x) : q \in {r \in shorter : Len(r) = n - 1}, x \in S}

\* "len(backend) > 9 and backend[9] == 'true'" (Doris),
\* "len(backend) > 8 and str(backend[8]).lower() == 'true'" (StarRocks)
CountsAsAlive(cls, row) ==
    /\ Len(row) > AliveColumn(cls)
    /\ IF cls = "doris"
       THEN row[AliveColumn(cls) + 1] = "true"
       ELSE Lower(row[AliveColumn(cls) + 1]) = "true"

\* what one call of test_connection can meet: the connection fails, SELECT
\* 1 raises, SHOW BACKENDS raises, or the listing arrives; what the call
\* does not get to stays at its default
Observations(cls) ==
    LET Obs(c, q, w, B) == [connect |-> c, select |-> q, show |-> w, backends |-> B]
    IN  IF cls \in {"doris", "starrocks"}
        THEN {Obs(FALSE, FALSE, FALSE, <<>>), Obs(TRUE, FALSE, FALSE, <<>>),
              Obs(TRUE, TRUE, FALSE, <<>>)}
                \cup {Obs(TRUE, TRUE, TRUE, B) : B \in SeqsUpTo(BackendRows(cls), MaxBackends)}
        ELSE {Obs(FALSE, FALSE, FALSE, <<>>), Obs(TRUE, FALSE, FALSE, <<>>),
              Obs(TRUE, TRUE, FALSE, <<>>)}

\* a check that is content with a frontend that answers
test_connection_frontend(cls, o) ==
    CASE cls = "clickhouse" -> TRUE
      [] cls = "tidb" -> o.connect
      [] OTHER -> o.connect /\ o.select

\* test_connection of each loader class: the base class returns True,
\* TiDB needs the connection, ColumnStore the connection and SELECT 1, Doris
\* and StarRocks also a listing with at least one row that counts as alive
test_connection(cls, o) ==
    CASE cls = "clickhouse" -> TRUE
      [] cls = "tidb" -> o.connect
      [] cls = "columnstore" -> o.connect /\ o.select
      [] OTHER ->
            /\ o.connect
            /\ o.select
            /\ o.show
            /\ o.backends # <<>>
            /\ \E i \in 1..Len(o.backends) : CountsAsAlive(cls, o.backends[i])

\* the values the readiness check of a backend can return: the polling
\* backends report what their polls observed, ClickHouseLoader inherits
\* DatabaseLoader.test_connection, which returns True
ReadinessResults(db) == {test_connection(db, o) : o \in Observations(db)}

\* a wrong main: the result of the readiness check is ignored
ProceedAfterReadiness_always(ready) == TRUE

\* "if not loader.wait_for_connection(...): sys.exit(1)" and its two siblings
ProceedAfterReadiness(ready) == ready

\* the readiness check returns: main exits with 1 on False, a direct
\* caller gets the value; the locals of the call are gone
ProbeReturn(ready) ==
    /\ l_ready' = IF ready THEN "true" ELSE "false"
    /\ returns' = Append(returns, [op |-> "probe", ok |-> ready])
    /\ snaps' = Append(snaps, srv)
    /\ clock' = 0
    /\ IF caller = "main"
       THEN IF ProceedAfterReadiness(ready)
            THEN /\ l_pc' = "schema"
                 /\ UNCHANGED l_exit
            ELSE LoaderExit1
       ELSE /\ l_pc' = "unit"
            /\ UNCHANGED l_exit

\* the outcomes of the container check of _ensure_columnstore_provisioned:
\* mcs1 is listed, is not listed, or docker ps fails
DockerPs == {"listed", "missing", "error"}

\* wait_for_connection(arg) up to its loop: ColumnStoreLoader first runs
\* _ensure_columnstore_provisioned (docker ps, then the provision command
\* when the container is listed) and returns False when that fails
WaitForConnection(arg) ==
    /\ timeout' = EffectiveTimeout(loader, arg)
    /\ polled' = FALSE
    /\ slept' = FALSE
    /\ probe_obs' = NoObs
    /\ IF loader = "columnstore"
       THEN \E ps \in DockerPs :
              IF ps = "listed"
              THEN /\ ext_cmds' = 2
                   /\ clock' = 0
                   /\ l_pc' = "poll"
                   /\ UNCHANGED << l_ready, returns, snaps, l_exit >>
              ELSE /\ ext_cmds' = 1
                   /\ ProbeReturn(FALSE)
       ELSE /\ ext_cmds' = 0
            /\ clock' = 0
            /\ l_pc' = "poll"
            /\ UNCHANGED << l_ready, returns, snaps, l_exit >>

\* "Wait for database to be ready": wait_for_connection with the command
\* line timeout for starrocks, doris and columnstore, without an argument
\* for tidb, test_connection() for the rest
Readiness ==
    /\ l_pc = "ready"
    /\ l_trace' = Append(l_trace, "readiness")
    /\ IF database \in {"starrocks", "doris", "columnstore"}
       THEN WaitForConnection(connection_timeout)
       ELSE IF database = "tidb"
       THEN WaitForConnection(NoneTimeout)
       ELSE \E ready \in ReadinessResults(database) :
              /\ ProbeReturn(ready)
              /\ UNCHANGED << timeout, polled, slept, ext_cmds, probe_obs >>
    /\ UNCHANGED << loader, config, srv, cfgVars, schemaVars, loadVars >>
    /\ UNCHANGED benchVars

\* one turn of "while time.time() - start_time < timeout": return False
\* when the time is up, otherwise call test_connection, return True when it
\* does, and sleep before the next turn when it does not
Poll ==
    /\ l_pc = "poll"
    /\ IF clock < timeout
       THEN \E o \in Observations(loader), t \in PollTimes :
              LET ready == test_connection(loader, o)
              IN  /\ polled' = TRUE
                  /\ probe_obs' = [connect |-> o.connect, select |-> o.select,
                                   show |-> o.show, backends |-> o.backends,
                                   result |-> ready]
                  /\ IF ready
                     THEN /\ ProbeReturn(TRUE)
                          /\ UNCHANGED slept
                     ELSE /\ slept' = TRUE
                          /\ clock' = clock + t + SleepInterval(loader)
                          /\ UNCHANGED << l_pc, l_ready, returns, snaps, l_exit >>
       ELSE /\ ProbeReturn(FALSE)
            /\ probe_obs' = NoObs
            /\ UNCHANGED << polled, slept >>
    /\ UNCHANGED << loader, config, l_trace, srv, timeout, ext_cmds, cfgVars, schemaVars, loadVars >>
    /\ UNCHANGED benchVars

(* ---- schema setup ---- *)
\* create_database_and_tables is entered: no statement has run yet
BeginSchema ==
    /\ l_trace' = Append(l_trace, "schema")
    /\ srv0' = srv
    /\ ddl_next' = 1
    /\ ddl_log' = <<>>
    /\ ddl_failed' = 0
    /\ l_pc' = "ddl"
    /\ UNCHANGED << ddl_executed, l_exit, returns, snaps >>

\* "if not args.skip_schema: loader.create_database_and_tables()"
SchemaSetup ==
    /\ l_pc = "schema"
    /\ IF skip_schema
       THEN /\ l_pc' = "load"
            /\ UNCHANGED << l_trace, l_exit, returns, snaps, schemaVars >>
       ELSE BeginSchema
    /\ UNCHANGED << loader, config, srv, l_ready, cfgVars, probeVars, loadVars >>
    /\ UNCHANGED benchVars

\* ClickHouseLoader._execute_sql_command: clickhouse-client first, the
\* driver when the command line fails; False when both fail
execute_sql_command(cli, driver) == cli \/ driver

\* a loop that goes on to the next statement after a failure
RaiseOnFailure_never(ok) == FALSE

\* "if not self._execute_sql_command(sql_command): raise RuntimeError",
\* and the "except ...: raise" around cursor.execute of the other loaders
RaiseOnFailure(ok) == ~ok

\* ClickHouseLoader._get_client ends with "try: client.disconnect()
\* except: pass": the bare except also catches a KeyboardInterrupt raised
\* while the client disconnects, which happens when the command line failed
\* and the driver executed the statement
SwallowsInterrupt(cls, cli, driver) == cls = "clickhouse" /\ ~cli /\ driver

\* one turn of "for sql_command in sql_commands": the statement is
\* executed; when it fails the operation raises with the earlier statements
\* in effect, after the last statement the operation returns. An interrupt
\* that arrives where it is swallowed leaves no trace in the control flow
ExecuteDDL ==
    /\ l_pc = "ddl"
    /\ \E cli, driver, sig \in BOOLEAN :
         LET cmd == sql_commands(loader)[ddl_next]
             d == SchemaDb(loader, db_name)
             done == ApplyStmt(cmd, srv, d)
             ok == done.accepted /\ IF loader = "clickhouse"
                                    THEN execute_sql_command(cli, driver)
                                    ELSE cli
             after == IF ok THEN done.state ELSE srv
         IN  /\ (loader # "clickhouse" => driver)
             /\ sig => (sigint = "armed" /\ SwallowsInterrupt(loader, cli, driver))
             /\ sigint' = IF sig THEN "raised" ELSE sigint
             /\ srv' = after
             /\ ddl_log' = IF ok THEN Append(ddl_log, cmd) ELSE ddl_log
             /\ ddl_executed' = IF ok THEN ddl_executed + 1 ELSE ddl_executed
             /\ ddl_failed' = IF ok \/ ddl_failed # 0 THEN ddl_failed ELSE ddl_next
             /\ IF RaiseOnFailure(ok)
                THEN /\ ddl_next' = 0
                     /\ Return("schema", FALSE, after, "done")
                ELSE IF ddl_next = Len(sql_commands(loader))
                THEN /\ ddl_next' = 0
                     /\ Return("schema", TRUE, after, "load")
                ELSE /\ ddl_next' = ddl_next + 1
                     /\ UNCHANGED << l_pc, l_exit, returns, snaps >>
    /\ UNCHANGED << loader, config, l_trace, l_ready, srv0, runVars, probeVars, loadVars >>
    /\ UNCHANGED benchVars

(* ---- the bulk load ---- *)
\* data rows of each source file
MaxRows == 10

\* rows of a file the backend can find bad
FilteredChoices == {0, 1, 2}

\* the file load_data looks for: named after config.database by
\* ClickHouseLoader, bts.<table>.csv for the others
LoadFile(cls, name, t) == CsvFile(IF cls = "clickhouse" THEN name ELSE "bts", t)

\* the database the rows go to: config.database in the stream load URL
\* and in the INSERT of ClickHouse; bts for cpimport and for the import tool
\* of TiDB, which takes it from the names of the source files
LoadDb(cls, name) == IF cls \in {"columnstore", "tidb"} THEN "bts" ELSE name

\* the database of the row count that follows a table load: every loader
\* names config.database (ColumnStore connects with database=config.database)
CountDb(cls, name) == name

\* a header that tolerates half of the rows
max_filter_ratio_half(t) == 5

\* the max_filter_ratio header, in tenths: '0.1', and '0.2' for flights
max_filter_ratio(t) == IF t = "flights" THEN 2 ELSE 1

\* the Status of the response body of a stream load: Success when the
\* share of filtered rows does not exceed max_filter_ratio
StreamStatus(t, f) == IF 10 * f <= max_filter_ratio(t) * MaxRows THEN "Success" ELSE "Fail"

\* stderr of cpimport: nothing, a warning, an error report
StderrTexts == {"", "warning", "ERROR"}

\* result.stderr.lower()
stderr_lower(text) == IF text = "ERROR" THEN "error" ELSE text

\* "error" in result.stderr.lower()
HasError(text) == stderr_lower(text) = "error"

LoadObs(tr, http, st, rc, err, f, c) ==
    [transport |-> tr, http |-> http, status |-> st, rc |-> rc, stderr |-> err,
     filtered |-> f, count_ok |-> c]

\* what a table load can meet. Stream load: the request fails, the HTTP
\* status is not 200, the body is not JSON, the server reports a failure, or
\* it ingests the file and filters f rows. cpimport: return code 0 or a
\* non-zero code, each with any text on stderr; rows can be left out when
\* the code is not 0. clickhouse-client: the return code. The import tool
\* of TiDB (one run for the three tables, t is not used): it is not run at
\* all when it cannot be started (transport is FALSE, as when its
\* configuration file is missing), otherwise its return code. In each case the count
\* query that follows succeeds or fails. Nothing is ingested into a missing
\* table.
TableOutcomes(cls, t, exists) ==
    IF cls \in {"doris", "starrocks"}
    THEN {LoadObs(FALSE, 0, "none", 0, "", 0, FALSE), LoadObs(TRUE, 500, "none", 0, "", 0, FALSE),
          LoadObs(TRUE, 200, "none", 0, "", 0, FALSE), LoadObs(TRUE, 200, "Fail", 0, "", 0, FALSE)}
            \cup (IF exists
                  THEN {LoadObs(TRUE, 200, StreamStatus(t, f), 0, "", f, c) :
                            f \in FilteredChoices, c \in BOOLEAN}
                  ELSE {})
    ELSE IF cls = "columnstore"
    THEN {LoadObs(TRUE, 0, "none", 1, "ERROR", 0, FALSE)}
            \cup (IF exists
                  THEN {LoadObs(TRUE, 0, "none", 0, err, 0, c) :
                            err \in StderrTexts, c \in BOOLEAN}
                        \cup {LoadObs(TRUE, 0, "none", 1, err, f, c) :
                                err \in {"", "warning"}, f \in {0, 1}, c \in BOOLEAN}
                  ELSE {})
    ELSE (IF cls = "tidb" THEN {LoadObs(FALSE, 0, "none", 0, "", 0, FALSE)} ELSE {})
            \cup {LoadObs(TRUE, 0, "none", 1, "", 0, FALSE)}
            \cup (IF exists
                  THEN {LoadObs(TRUE, 0, "none", 0, "", 0, c) : c \in BOOLEAN}
                  ELSE {})

\* whether the backend took the file in
Ingested(cls, o) ==
    IF cls \in {"doris", "starrocks"}
    THEN o.transport /\ o.http = 200 /\ o.status = "Success"
    ELSE IF cls = "columnstore"
    THEN ~(o.rc # 0 /\ HasError(o.stderr))
    ELSE o.transport /\ o.rc = 0

\* a count query whose failure fails the load everywhere
CountFailureRaises_always(cls) == TRUE

\* the count query after the import: ClickHouseLoader._load_file runs it
\* with check=True inside the try that re-raises CalledProcessError, the
\* other loaders wrap it in "try ... except Exception" and only log
CountFailureRaises(cls) == cls = "clickhouse"

\* a stream load that trusts the HTTP status alone
table_load_raises_httponly(cls, o) ==
    IF cls \in {"doris", "starrocks"}
    THEN IF ~o.transport THEN TRUE
         ELSE IF o.http = 200 THEN FALSE
         ELSE TRUE
    ELSE IF cls = "columnstore"
    THEN o.rc # 0 /\ HasError(o.stderr)
    ELSE ~o.transport \/ o.rc # 0 \/ (~o.count_ok /\ CountFailureRaises(cls))

\* _load_file_via_stream_load: an exception of requests.put, a status
\* code other than 200 and a Status other than 'Success' raise; _load_table:
\* a non-zero return code with "error" in stderr raises; _load_file: a
\* non-zero return code of the INSERT or of the count query raises;
\* load_data of TiDBLoader: a missing configuration file and a non-zero
\* return code of the import tool raise
table_load_raises(cls, o) ==
    IF cls \in {"doris", "starrocks"}
    THEN IF ~o.transport THEN TRUE
         ELSE IF o.http = 200
              THEN IF o.status = "Success"
                   THEN ~o.count_ok /\ CountFailureRaises(cls)
                   ELSE TRUE
              ELSE TRUE
    ELSE IF cls = "columnstore"
    THEN \/ o.rc # 0 /\ HasError(o.stderr)
         \/ ~o.count_ok /\ CountFailureRaises(cls)
    ELSE ~o.transport \/ o.rc # 0 \/ (~o.count_ok /\ CountFailureRaises(cls))

\* the rows of table t of database d after a table load that met o
AfterLoad(s, d, t, cls, o) ==
    IF Ingested(cls, o) /\ s[d].rows[t] >= 0
    THEN [s EXCEPT ![d].rows[t] = @ + MaxRows - o.filtered]
    ELSE s

\* where main goes when load_data has returned
AfterLoadData == IF database = "tidb" THEN "post" ELSE "done"

\* "if csv_file_path.exists(): ... else: warning(... not found, skipping...)"
\* of the ClickHouse, Doris and StarRocks load_data
SkipMissing(cls) == cls \in {"clickhouse", "doris", "starrocks"}

\* load_data up to its first table load. ClickHouse submits a worker for
\* every file that exists; ColumnStore checks the container and raises when
\* a file is missing; TiDB raises when the configuration file of the import
\* tool is missing, otherwise it notes the working directory and enters its
\* try block with os.chdir(project_root)
BeginLoad ==
    /\ l_trace' = Append(l_trace, "load")
    /\ load_calls' = load_calls + 1
    /\ srv_load0' = srv
    /\ load_table' = "none"
    /\ CASE loader \in {"doris", "starrocks"} ->
              /\ load_obs' = NoLoadObs
              /\ load_state' = [t \in TableSet |-> "none"]
              /\ l_pc' = "tables"
              /\ UNCHANGED << srv, returns, snaps, l_exit, cwd, original_cwd >>
         [] loader = "clickhouse" ->
              LET submitted == {t \in TableSet : LoadFile(loader, db_name, t) \in csv_files}
              IN  /\ load_obs' = NoLoadObs
                  /\ load_state' = [t \in TableSet |->
                                        IF t \in submitted THEN "pending" ELSE "skipped"]
                  /\ IF submitted # TableSet /\ ~SkipMissing(loader)
                     THEN Return("load", FALSE, srv, "done")
                     ELSE IF submitted = {}
                     THEN Return("load", TRUE, srv, AfterLoadData)
                     ELSE /\ l_pc' = "tables"
                          /\ UNCHANGED << returns, snaps, l_exit >>
                  /\ UNCHANGED << srv, cwd, original_cwd >>
         [] loader = "columnstore" ->
              /\ load_obs' = NoLoadObs
              /\ load_state' = [t \in TableSet |-> "none"]
              /\ UNCHANGED << srv, cwd, original_cwd >>
              /\ \E ps \in DockerPs :
                   IF ps = "listed" /\ \A t \in TableSet : LoadFile(loader, db_name, t) \in csv_files
                   THEN /\ l_pc' = "tables"
                        /\ UNCHANGED << returns, snaps, l_exit >>
                   ELSE Return("load", FALSE, srv, "done")
         [] OTHER ->
              \E config_exists \in BOOLEAN :
                 IF config_exists
                 THEN /\ original_cwd' = cwd
                      /\ cwd' = "project_root"
                      /\ load_obs' = NoLoadObs
                      /\ load_state' = [t \in TableSet |-> "none"]
                      /\ l_pc' = "import"
                      /\ UNCHANGED << srv, returns, snaps, l_exit >>
                 ELSE /\ load_obs' = LoadObs(FALSE, 0, "none", 0, "", 0, FALSE)
                      /\ load_state' = [t \in TableSet |-> "failed"]
                      /\ Return("load", FALSE, srv, "done")
                      /\ UNCHANGED << srv, cwd, original_cwd >>

\* loader.load_data(csv_dir)
LoadData ==
    /\ l_pc = "load"
    /\ BeginLoad
    /\ UNCHANGED << loader, config, l_ready, cfgVars, schemaVars, probeVars >>
    /\ UNCHANGED benchVars

\* a load_data that goes back to the directory only when it returns
finally_chdir_onreturn(original, current, raises) ==
    IF raises THEN current ELSE original

\* "finally: os.chdir(original_cwd)": the directory after the try block of
\* TiDBLoader.load_data, whether the block returns or raises
finally_chdir(original, current, raises) == original

\* the try block of TiDBLoader.load_data after os.chdir: the import tool
\* runs once for the three tables; load_data raises when the tool cannot be
\* started or ends with a non-zero code and only logs a failing count query;
\* the finally clause runs on the way out
RunImport ==
    /\ l_pc = "import"
    /\ LET d == LoadDb(loader, db_name)
           exist == \A t \in TableSet : srv[d].rows[t] >= 0
       IN  \E o \in TableOutcomes(loader, "airlines", exist) :
              LET raises == table_load_raises(loader, o)
                  after == IF Ingested(loader, o)
                           THEN [srv EXCEPT ![d].rows =
                                     [t \in TableSet |-> @[t] + MaxRows]]
                           ELSE srv
              IN  /\ srv' = after
                  /\ load_obs' = o
                  /\ load_state' = [t \in TableSet |->
                                        IF raises THEN "failed" ELSE "ok"]
                  /\ cwd' = finally_chdir(original_cwd, cwd, raises)
                  /\ Return("load", ~raises, after, AfterLoadData)
    /\ UNCHANGED << loader, config, l_trace, l_ready, load_calls, load_table, srv_load0,
                    original_cwd, cfgVars, schemaVars, probeVars >>
    /\ UNCHANGED benchVars

\* a load_data that comes back to a table whose load has failed
Remaining_retry(state) == {t \in TableSet : state[t] \in {"none", "pending", "failed"}}

\* the tables load_data has not dealt with yet
Remaining(state) == {t \in TableSet : state[t] \in {"none", "pending"}}

\* a load_data that gives up at the first failed table load everywhere
AbortsAtFirstFailure_always(cls) == TRUE

\* the sequential loops call the table load without a try, so its exception
\* ends load_data at once; the worker pool of ClickHouse collects the
\* futures and is left (shutdown, wait=True) when every worker has finished
AbortsAtFirstFailure(cls) == cls # "clickhouse"

\* a collecting loop that swallows the exception of a worker
future_result_raises_never(state) == FALSE

\* "for future in as_completed(futures): future.result()" re-raises the
\* exception of a worker
future_result_raises(state) == \E u \in TableSet : state[u] = "failed"

\* the table that is loaded next: the first one left in the order of the
\* mapping; any submitted one in the worker pool of ClickHouse
NextTables ==
    IF loader = "clickhouse" THEN Remaining(load_state)
    ELSE {TableNames[i] : i \in {j \in 1..Len(TableNames) :
                /\ TableNames[j] \in Remaining(load_state)
                /\ \A k \in 1..(j - 1) : TableNames[k] \notin Remaining(load_state)}}

\* one table: a file that does not exist is skipped, any other is
\* loaded; a sequential load_data raises at the first table load that
\* raises, the worker pool lets every submitted load finish and then raises
\* when one of them did; after the last table load_data returns
LoadTable ==
    /\ l_pc = "tables"
    /\ \E t \in NextTables :
         LET d == LoadDb(loader, db_name)
             missing == LoadFile(loader, db_name, t) \notin csv_files
             outcomes == IF missing THEN {NoLoadObs}
                         ELSE TableOutcomes(loader, t, srv[d].rows[t] >= 0)
         IN  /\ load_table' = t
             /\ \E o \in outcomes :
                  LET raised == IF missing THEN ~SkipMissing(loader)
                                ELSE table_load_raises(loader, o)
                      state == [load_state EXCEPT ![t] =
                                    IF raised THEN "failed"
                                    ELSE IF missing THEN "skipped" ELSE "ok"]
                      after == IF missing THEN srv ELSE AfterLoad(srv, d, t, loader, o)
                      failed == future_result_raises(state)
                  IN  /\ load_obs' = o
                      /\ load_state' = state
                      /\ srv' = after
                      /\ IF AbortsAtFirstFailure(loader) /\ raised
                         THEN Return("load", FALSE, after, "done")
                         ELSE IF Remaining(state) = {}
                         THEN Return("load", ~failed, after, AfterLoadData)
                         ELSE UNCHANGED << l_pc, l_exit, returns, snaps >>
    /\ UNCHANGED << loader, config, l_trace, l_ready, load_calls, srv_load0, cwd,
                    original_cwd, cfgVars, schemaVars, probeVars >>
    /\ UNCHANGED benchVars

\* "if args.database == 'tidb': loader.set_tiflash_replica()": returns or raises
PostLoad ==
    /\ l_pc = "post"
    /\ l_trace' = Append(l_trace, "post")
    /\ \E ok \in BOOLEAN : Return("post", ok, srv, "done")
    /\ UNCHANGED << loader, config, srv, l_ready, cfgVars, schemaVars, probeVars, loadVars >>
    /\ UNCHANGED benchVars

NextLoader ==
    \/ VerifyCsvFiles
    \/ Readiness
    \/ Poll
    \/ SchemaSetup
    \/ ExecuteDDL
    \/ LoadData
    \/ RunImport
    \/ LoadTable
    \/ PostLoad

SpecLoader == InitLoader /\ [][NextLoader]_vars

(***************************************************************************)
(* The loader main flow under an interrupt signal                          *)
(***************************************************************************)
\* where main is while it runs
MainPositions ==
    {"start", "ready", "poll", "schema", "ddl", "load", "import", "tables", "post"}

\* KeyboardInterrupt is raised in the main thread: no "except Exception"
\* catches it, the "except KeyboardInterrupt" of main calls sys.exit(1); on
\* its way through the try block of TiDBLoader.load_data it runs the
\* finally clause
Interrupt ==
    /\ sigint = "armed"
    /\ l_pc \in MainPositions
    /\ sigint' = "raised"
    /\ LoaderExit1
    /\ cwd' = IF l_pc = "import" THEN finally_chdir(original_cwd, cwd, TRUE) ELSE cwd
    /\ UNCHANGED << loader, config, l_trace, returns, snaps, srv, l_ready, runVars,
                    schemaVars, probeVars, load_calls, load_state, load_table,
                    load_obs, srv_load0, original_cwd >>
    /\ UNCHANGED benchVars

\* a run with the default credentials in which an interrupt can arrive
InitSignal == MainStart /\ sigint = "armed" /\ config = DefaultConfig

NextSignal == NextLoader \/ Interrupt

SpecSignal == InitSignal /\ [][NextSignal]_vars

(***************************************************************************)
(* The operations of a loader called directly: any one of them on a       *)
(* fresh loader, schema setup also several times in succession             *)
(***************************************************************************)
\* successive calls of create_database_and_tables on one loader
MaxCalls == 2

InitUnit ==
    /\ BenchIdle
    /\ l_pc = "create"
    /\ caller = "unit"
    /\ database \in Identifiers
    /\ db_name \in DbNames
    /\ skip_schema = FALSE
    /\ csv_files \in CsvListings
    /\ connection_timeout \in {0, 7}
    /\ config = DefaultConfig
    /\ sigint = "off"
    /\ max_calls = MaxCalls
    /\ LoaderFresh

\* loader = create_loader(database, config)
CreateLoader ==
    /\ l_pc = "create"
    /\ loader' = create_loader(database)
    /\ config' = loader_init(create_loader(database), config)
    /\ l_pc' = IF create_loader(database) = "none" THEN "done" ELSE "unit"
    /\ UNCHANGED << l_trace, returns, snaps, l_exit, srv, l_ready,
                    cfgVars, schemaVars, probeVars, loadVars >>
    /\ UNCHANGED benchVars

\* loader.create_database_and_tables()
CallSchema ==
    /\ l_pc = "unit"
    /\ Len(l_trace) < max_calls
    /\ \A i \in 1..Len(l_trace) : l_trace[i] = "schema"
    /\ "create_database_and_tables" \in Methods(loader)
    /\ BeginSchema
    /\ UNCHANGED << loader, config, srv, l_ready, cfgVars, probeVars, loadVars >>
    /\ UNCHANGED benchVars

\* the readiness check of the loader, called directly:
\* loader.wait_for_connection(connection_timeout), or test_connection()
\* where the class has no wait_for_connection
CallProbe ==
    /\ l_pc = "unit"
    /\ l_trace = <<>>
    /\ "test_connection" \in Methods(loader)
    /\ l_trace' = Append(l_trace, "readiness")
    /\ IF "wait_for_connection" \in Methods(loader)
       THEN WaitForConnection(connection_timeout)
       ELSE \E ready \in ReadinessResults(loader) :
              /\ ProbeReturn(ready)
              /\ UNCHANGED << timeout, polled, slept, ext_cmds, probe_obs >>
    /\ UNCHANGED << loader, config, srv, cfgVars, schemaVars, loadVars >>
    /\ UNCHANGED benchVars

\* loader.load_data(csv_dir)
CallLoad ==
    /\ l_pc = "unit"
    /\ l_trace = <<>>
    /\ "load_data" \in Methods(loader)
    /\ BeginLoad
    /\ UNCHANGED << loader, config, l_ready, cfgVars, schemaVars, probeVars >>
    /\ UNCHANGED benchVars

NextUnit ==
    \/ CreateLoader
    \/ CallProbe
    \/ Poll
    \/ CallSchema
    \/ ExecuteDDL
    \/ CallLoad
    \/ RunImport
    \/ LoadTable

SpecUnit == InitUnit /\ [][NextUnit]_vars

(***************************************************************************)
(* One call of wait_for_connection                                         *)
(***************************************************************************)
InitProbe ==
    /\ BenchIdle
    /\ l_pc = "create"
    /\ caller = "unit"
    /\ database \in {id \in Databases : "wait_for_connection" \in Methods(id)}
    /\ db_name = "bts"
    /\ skip_schema = FALSE
    /\ csv_files = REQUIRED_CSV_FILES
    /\ connection_timeout \in ProbeTimeouts
    /\ config = DefaultConfig
    /\ sigint = "off"
    /\ max_calls = 1
    /\ LoaderFresh
    /\ srv = [d \in DbNames |-> Absent]

NextProbe ==
    \/ CreateLoader
    \/ CallProbe
    \/ Poll

SpecProbe == InitProbe /\ [][NextProbe]_vars

\* every call of test_connection returns, and so does time.sleep
SpecProbeFair == SpecProbe /\ WF_vars(NextProbe)

(***************************************************************************)
(* A run of one of the two programs                                        *)
(***************************************************************************)
InitEither == Init \/ InitLoader

\* the benchmark runner when it was started, the loader otherwise
NextEither ==
    \/ l_pc = "idle" /\ Next
    \/ l_pc # "idle" /\ NextLoader

SpecEither == InitEither /\ [][NextEither]_vars

(***************************************************************************)
(* Properties                                                              *)
(***************************************************************************)
AllTransient(es) == es # <<>> /\ \A i \in 1..Len(es) : es[i] \in TransientKinds

\* the file of `last` is the one the loop has just left, at the end of the
\* failed list
RecordedFailedAndLeft ==
    /\ pc \in {"loop", "done"}
    /\ idx > 1
    /\ sql_files[idx - 1] = last.file
    /\ failed_queries # <<>>
    /\ failed_queries[Len(failed_queries)] = last.file

\* C1: a file whose attempts all fail with a memory-limit or timeout error is
\* attempted exactly 3 times (MAX_RETRIES), is then appended to the failed
\* list, and the loop moves to the next file; no file is ever in a 4th attempt.
C1_TransientRetriesBounded ==
    /\ attempt + 1 <= 3
    /\ Len(errs) <= 3
    /\ (AllTransient(errs) /\ Len(errs) = 3) => (last.outcome = "failed" /\ last.errs = errs)
    /\ (last.outcome = "failed" /\ AllTransient(last.errs)) =>
            /\ last.tries = 3
            /\ Len(last.errs) = 3
            /\ RecordedFailedAndLeft

C1_Witness ==
    /\ last.outcome = "failed"
    /\ AllTransient(last.errs)
    /\ last.tries = 3
    /\ pc = "loop"
    /\ idx <= Len(sql_files)

C4_RestartSkipsCompletedFiles ==
    (pass = "restart" /\ pc = "stmt") => sql_files[idx] \notin primary_ok

\* C4 amended: the restart pass runs the whole file sequence from its first
\* file, the files that had completed under the primary pass included: it
\* starts at the first file with empty lists, records one result per file it
\* has passed, and its summary covers every discovered file.
C4_RestartRunsWholeSequence ==
    pass = "restart" =>
        /\ pc = "connect" => (idx = 1 /\ successful_queries = <<>> /\ failed_queries = <<>>)
        /\ pc \in {"loop", "attempt", "stmt"} =>
                Len(successful_queries) + Len(failed_queries) = idx - 1
        /\ summary_printed =>
                SeqToSet(successful_queries) \cup SeqToSet(failed_queries) = SeqToSet(sql_files)

C4_Witness ==
    /\ pass = "restart"
    /\ pc = "stmt"
    /\ sql_files[idx] \in primary_ok

C6_NumericOrderOfExecution ==
    (pc # "start" /\ ~KeyRaises(SqlFilesOf(listing))) =>
        /\ \A i, j \in 1..Len(sql_files) :
                i < j => NumKey(sql_files[i]) < NumKey(sql_files[j])
        /\ (pc = "stmt" /\ last_exec # <<>>) =>
                \/ last_exec = sql_files[idx]
                \/ NumKey(last_exec) < NumKey(sql_files[idx])

C6_Witness ==
    /\ pc = "stmt"
    /\ ~KeyRaises(SqlFilesOf(listing))
    /\ last_exec # <<>>
    /\ last_exec # sql_files[idx]
    /\ listing # sql_files

\* C7: when the prefix of some discovered .sql name is not a number,
\* get_sql_files returns all the names in str order and the run goes on
\* without an error.
C7_LexicalFallbackForWholeSet ==
    (pc # "start" /\ KeyRaises(SqlFilesOf(listing))) =>
        /\ pc = "connect"
        /\ exit_code = -1
        /\ SeqToSet(sql_files) = SeqToSet(SqlFilesOf(listing))
        /\ Len(sql_files) = Len(SqlFilesOf(listing))
        /\ \A i, j \in 1..Len(sql_files) : i < j => StrLess(sql_files[i], sql_files[j])

C7_Witness ==
    /\ pc = "connect"
    /\ KeyRaises(sql_files)
    /\ \E i, j \in 1..Len(sql_files) :
            /\ i < j
            /\ IntParses(SplitDot0(sql_files[i]))
            /\ IntParses(SplitDot0(sql_files[j]))
            /\ NumKey(sql_files[i]) > NumKey(sql_files[j])

NotRetriedKinds == {"auth", "other"}

\* C8 as stated: a file recorded as failed because of an error that is
\* neither transient nor an authorization error under 'root' had exactly one
\* attempt.
C8_OtherFailureAfterOneAttempt ==
    (last.outcome = "failed" /\ last.errs # <<>>
        /\ last.errs[Len(last.errs)] \in NotRetriedKinds) => last.tries = 1

\* C8 amended: an error that is neither transient nor an authorization error
\* under 'root' is never retried: the attempt in which it occurs is the last
\* one of the file (the only one unless transient failures came before), the
\* file is appended to the failed list and the loop moves to the next file.
C8_OtherFailureNotRetried ==
    /\ pc \in {"attempt", "stmt"} => \A i \in 1..Len(errs) : errs[i] \in TransientKinds
    /\ (last.outcome = "failed" /\ last.errs # <<>>
            /\ last.errs[Len(last.errs)] \in NotRetriedKinds) =>
            /\ last.tries = Len(last.errs)
            /\ \A i \in 1..(Len(last.errs) - 1) : last.errs[i] \in TransientKinds
            /\ RecordedFailedAndLeft

C8_Witness ==
    /\ last.outcome = "failed"
    /\ Len(last.errs) = 2
    /\ last.errs[2] = "other"
    /\ pc = "loop"
    /\ idx <= Len(sql_files)

\* C9 as stated: the process ends with status 1 exactly when the failed list
\* is not empty, and with status 0 otherwise.
C9_ExitOneIffFailedFile ==
    pc = "done" => (exit_code = IF failed_queries # <<>> THEN 1 ELSE 0)

\* C9 amended: a run that reaches its summary (in the primary pass or in the
\* restart pass) ends with status 1 exactly when its failed list is not
\* empty and with status 0 otherwise; a run that ends before its summary
\* (missing folder, no .sql file, connection failure) ends with status 1.
C9_ExitStatus ==
    pc = "done" =>
        /\ summary_printed => (exit_code = IF failed_queries # <<>> THEN 1 ELSE 0)
        /\ ~summary_printed => exit_code = 1

C9_Witness ==
    /\ pc = "done"
    /\ pass = "restart"
    /\ summary_printed
    /\ failed_queries # <<>>
    /\ exit_code = 1

LoaderOrder == <<"readiness", "schema", "load", "post">>

Rank(op) == CHOOSE i \in 1..Len(LoaderOrder) : LoaderOrder[i] = op

\* C10: the loader operations are invoked in the order readiness, schema,
\* load, post-load; schema setup and load happen only after the readiness
\* check returned true; when it returns false the process ends with status 1
\* without any DDL statement or load.
C10_ReadinessBeforeSchemaAndLoad ==
    /\ \A i, j \in 1..Len(l_trace) : i < j => Rank(l_trace[i]) < Rank(l_trace[j])
    /\ l_trace # <<>> => l_trace[1] = "readiness"
    /\ (ddl_executed > 0 \/ load_calls > 0
            \/ l_pc \in {"schema", "ddl", "load", "tables", "post"})
            => l_ready = "true"
    /\ l_ready = "false" =>
            /\ l_pc = "done"
            /\ l_exit = 1
            /\ ddl_executed = 0
            /\ load_calls = 0
            /\ l_trace = <<"readiness">>

C10_Witness ==
    /\ l_pc = "done"
    /\ l_exit = 0
    /\ l_trace = LoaderOrder

\* ---- claims C11..C20: the loader ----
\* the server state after the first n statements of cmds took effect on s
RECURSIVE AfterStatements(_, _, _, _)
AfterStatements(cmds, n, s, d) ==
    IF n = 0 THEN s
    ELSE Effect(cmds[n], AfterStatements(cmds, n - 1, s, d), d)

\* C11: create_database_and_tables executes its statements in the listed
\* order; when statement k fails nothing after k is executed, the effects of
\* the k - 1 statements before it stay on the server, and the loader run
\* ends with status 1 without any call of load_data.
C11_SchemaFailureAborts ==
    /\ Len(ddl_log) <= Len(sql_commands(database))
    /\ \A i \in 1..Len(ddl_log) : ddl_log[i] = sql_commands(database)[i]
    /\ ddl_failed # 0 =>
            /\ Len(ddl_log) = ddl_failed - 1
            /\ srv = AfterStatements(sql_commands(database), ddl_failed - 1, srv0,
                                     SchemaDb(database, db_name))
            /\ l_pc = "done"
            /\ l_exit = 1
            /\ load_calls = 0

C11_Witness ==
    /\ ddl_failed = 4
    /\ ddl_log = <<"drop_db", "create_db", "use_db">>
    /\ srv0[db_name].rows["flights"] = 1
    /\ srv[db_name] = [exists |-> TRUE, rows |-> NoTables]
    /\ l_exit = 1

\* a database with the three tables, all empty
CleanDb == [exists |-> TRUE, rows |-> [t \in TableSet |-> 0]]

SchemaOk(i) == i \in 1..Len(returns) /\ returns[i] = [op |-> "schema", ok |-> TRUE]

\* C12: a successful create_database_and_tables leaves the database with
\* the three tables, all empty, whatever the server held before; a second
\* successful run right after it leaves the server exactly as the first did.
C12_SchemaSetupIdempotent ==
    \A i \in 1..Len(returns) :
        /\ SchemaOk(i) => snaps[i + 1][SchemaDb(loader, db_name)] = CleanDb
        /\ (SchemaOk(i) /\ SchemaOk(i + 1)) => snaps[i + 2] = snaps[i + 1]

C12_Witness ==
    /\ SchemaOk(1)
    /\ SchemaOk(2)
    /\ snaps[1][SchemaDb(loader, db_name)].rows["airports"] = 1
    /\ loader \in {"tidb", "columnstore"}

ProbeReturned(i) == i \in 1..Len(returns) /\ returns[i].op = "probe"

\* C13: a call of wait_for_connection with timeout zero returns False
\* without having called test_connection, run an external command or slept.
C13_ZeroTimeoutDoesNothing ==
    (ProbeReturned(1) /\ connection_timeout = 0) =>
        /\ ~returns[1].ok
        /\ ~polled
        /\ ~slept
        /\ ext_cmds = 0

\* the loop of wait_for_connection is left with True by a positive poll
\* made before the time was up, and with False when the time is up; a turn
\* that stays in the loop made a negative poll and slept the fixed interval
ProbeStep ==
    /\ (l_pc = "poll" /\ l_pc' = "unit") =>
            /\ returns'[Len(returns')].op = "probe"
            /\ IF returns'[Len(returns')].ok
               THEN clock < timeout /\ polled' /\ probe_obs'.result
               ELSE clock >= timeout
    /\ (l_pc = "poll" /\ l_pc' = "poll") =>
            /\ ~probe_obs'.result
            /\ \E t \in PollTimes : clock' = clock + t + SleepInterval(loader)

\* C14: wait_for_connection always returns: True only from a poll that
\* found the backend ready, False once the timeout has elapsed without such
\* a poll, polling at a fixed interval in between.
C14_ProbeTerminates ==
    /\ [][ProbeStep]_vars
    /\ (l_pc = "poll") ~> (l_pc = "unit" /\ ProbeReturned(1))

C14_Witness ==
    /\ ProbeReturned(1)
    /\ ~returns[1].ok
    /\ timeout = STARROCKS_TIMEOUT
    /\ loader = "starrocks"
    /\ polled
    /\ slept

\* the Alive column of a listed backend says true
AliveFlagTrue(cls, row) ==
    /\ Len(row) > AliveColumn(cls)
    /\ Lower(row[AliveColumn(cls) + 1]) = "true"

\* C15: test_connection of Doris and StarRocks returns True only when the
\* connection was made, SELECT 1 and SHOW BACKENDS succeeded and some listed
\* backend has its alive flag true; with an empty listing, or one without
\* an alive backend, it returns False.
C15_ReadyNeedsAliveBackend ==
    (loader \in {"doris", "starrocks"} /\ polled /\ l_pc \in {"poll", "unit"}) =>
        LET o == probe_obs
            someAlive == \E i \in 1..Len(o.backends) : AliveFlagTrue(loader, o.backends[i])
        IN  /\ o.result => (o.connect /\ o.select /\ o.show /\ someAlive)
            /\ ~someAlive => ~o.result

C15_Witness ==
    /\ loader = "doris"
    /\ l_pc = "poll"
    /\ polled
    /\ probe_obs.connect
    /\ probe_obs.select
    /\ probe_obs.show
    /\ Len(probe_obs.backends) = 2
    /\ ~probe_obs.result

\* the operations of the DatabaseLoader contract
ContractMethods == {"test_connection", "create_database_and_tables", "load_data"}

\* C16: for each of the five supported identifiers create_loader returns
\* the loader of that backend, which has the readiness check, schema setup
\* and bulk load; for any other identifier it raises and nothing is created
\* or called.
C16_CreateLoaderOnSupportedSet ==
    l_pc # "create" =>
        IF database \in {"clickhouse", "tidb", "doris", "starrocks", "columnstore"}
        THEN /\ loader = database
             /\ ContractMethods \subseteq Methods(loader)
        ELSE /\ loader = "none"
             /\ l_pc = "done"
             /\ l_trace = <<>>
             /\ returns = <<>>

C16_Witness ==
    /\ loader = "clickhouse"
    /\ l_trace = <<"load">>
    /\ returns = << [op |-> "load", ok |-> TRUE] >>

StreamLoaders == {"doris", "starrocks"}

\* the rows a load_data call has added to table t so far
RowsAdded(t) ==
    srv[LoadDb(loader, db_name)].rows[t] - srv_load0[LoadDb(loader, db_name)].rows[t]

\* C17 as stated: a table load reported successful has put exactly the
\* data rows of the source file into the (empty) target table.
C17_RowCountEqualsSource ==
    \A t \in TableSet :
        (load_state[t] = "ok" /\ srv_load0[LoadDb(loader, db_name)].rows[t] = 0) =>
            srv[LoadDb(loader, db_name)].rows[t] = MaxRows

\* C17, amended: a table load reported successful has added at most the
\* data rows of the source file; a stream load is reported successful with
\* filtered rows as long as their share is within max_filter_ratio, so at
\* most a tenth of the rows (a fifth for flights) are missing.
C17_RowCountWithinTolerance ==
    \A t \in TableSet :
        (load_state[t] = "ok" /\ srv_load0[LoadDb(loader, db_name)].rows[t] >= 0) =>
            /\ RowsAdded(t) <= MaxRows
            /\ loader \in StreamLoaders =>
                    IF t = "flights"
                    THEN 5 * (MaxRows - RowsAdded(t)) <= MaxRows
                    ELSE 10 * (MaxRows - RowsAdded(t)) <= MaxRows

C17_Witness ==
    /\ loader = "doris"
    /\ load_table = "flights"
    /\ load_state["flights"] = "ok"
    /\ load_obs.filtered = 2
    /\ RowsAdded("flights") = MaxRows - 2
    /\ l_exit = 0

\* C18: the loader run ends with status 0 only if a load was performed
\* and succeeded for each of airlines, airports and flights; no table is
\* skipped in a run that reports success.
C18_SuccessMeansAllTablesLoaded ==
    (l_pc = "done" /\ l_exit = 0) => \A t \in TableSet : load_state[t] = "ok"

\* the last table load was an actual stream load
StreamLoadDone ==
    /\ loader \in StreamLoaders
    /\ load_table # "none"
    /\ load_state[load_table] \in {"ok", "failed"}

\* C19: a stream load raises exactly when the request failed, the HTTP
\* status is not the success status, or the Status of the response body is
\* not 'Success'; otherwise the table load is successful.
C19_StreamLoadRaisesIff ==
    StreamLoadDone =>
        (load_state[load_table] = "failed"
            <=> (\/ ~load_obs.transport
                 \/ load_obs.http # 200
                 \/ load_obs.status # "Success"))

C19_Witness ==
    /\ loader = "starrocks"
    /\ StreamLoadDone
    /\ load_state[load_table] = "failed"
    /\ load_obs.transport
    /\ load_obs.http = 200
    /\ load_obs.status = "Fail"
    /\ l_exit = 1

\* C20: when a stream load was ingested and the row-count query after it
\* fails, the table load still succeeds and load_data goes on: to the next
\* table, or to its normal return after the last one.
C20_CountFailureIsNotALoadFailure ==
    (StreamLoadDone /\ load_obs.transport /\ load_obs.http = 200
        /\ load_obs.status = "Success" /\ ~load_obs.count_ok) =>
            /\ load_state[load_table] = "ok"
            /\ IF load_table = "flights"
               THEN /\ returns[Len(returns)] = [op |-> "load", ok |-> TRUE]
                    /\ l_exit = 0
               ELSE /\ l_pc = "tables"
                    /\ l_exit = -1

C20_Witness ==
    /\ loader = "doris"
    /\ load_table = "airlines"
    /\ load_state["airlines"] = "ok"
    /\ load_obs.status = "Success"
    /\ ~load_obs.count_ok
    /\ l_pc = "tables"

\* ---- claims C21..C30 ----

\* the last table load was a run of cpimport
CpimportDone ==
    /\ loader = "columnstore"
    /\ load_table # "none"
    /\ load_state[load_table] \in {"ok", "failed"}

\* C21: a table import of the ColumnStore loader raises whenever the
\* stderr of cpimport contains "error" in any letter case, and stderr
\* output without it leaves the table load successful.
C21_ErrorIndicatorRaises ==
    CpimportDone =>
        (load_state[load_table] = "failed" <=> HasError(load_obs.stderr))

\* load_data of the TiDB loader has returned or raised
TidbLoadDone ==
    /\ loader = "tidb"
    /\ load_calls > 0
    /\ load_state["airlines"] \in {"ok", "failed"}

TableLoadStep == l_pc = "tables" /\ load_table' \in TableSet

\* C23: within one run load_data is called at most once and a table load
\* is run only for a table that has had none yet; a sequential load_data
\* that meets a failed table load raises at once, and a run in which a table
\* load failed ends with status 1 without any further loader operation.
C23_NoRetryOfTableLoad ==
    /\ [](load_calls <= 1)
    /\ []((l_pc = "done" /\ \E t \in TableSet : load_state[t] = "failed") =>
              /\ l_exit = 1
              /\ l_trace[Len(l_trace)] = "load"
              /\ returns[Len(returns)] = [op |-> "load", ok |-> FALSE])
    /\ [][TableLoadStep =>
              /\ load_state[load_table'] \in {"none", "pending"}
              /\ (load_state'[load_table'] = "failed" /\ loader # "clickhouse") =>
                    (l_pc' = "done" /\ l_exit' = 1)]_vars

C23_Witness ==
    /\ loader = "starrocks"
    /\ load_calls = 1
    /\ load_state = [airlines |-> "ok", airports |-> "failed", flights |-> "none"]
    /\ l_pc = "done"
    /\ l_exit = 1

\* load_data of the ClickHouse loader has returned or raised
PoolLoadReturned ==
    /\ loader = "clickhouse"
    /\ \E i \in 1..Len(returns) : returns[i].op = "load"

\* C24: when the load of a table failed in a worker of the ClickHouse
\* pool, load_data raises and the run ends with status 1, whichever worker
\* finished first and whatever the other workers did; no load is reported
\* as successful.
C24_WorkerFailurePropagates ==
    (PoolLoadReturned /\ \E t \in TableSet : load_state[t] = "failed") =>
        /\ l_pc = "done"
        /\ l_exit = 1
        /\ returns[Len(returns)] = [op |-> "load", ok |-> FALSE]
        /\ [op |-> "load", ok |-> TRUE] \notin SeqToSet(returns)

C24_Witness ==
    /\ PoolLoadReturned
    /\ load_state = [airlines |-> "failed", airports |-> "ok", flights |-> "ok"]
    /\ load_table = "flights"
    /\ l_exit = 1

\* C25: when load_data of the ClickHouse loader returns or raises, every
\* table load it submitted has finished, with success or with failure: the
\* failure of one worker leaves no sibling load unfinished.
C25_SiblingLoadsComplete ==
    PoolLoadReturned => \A t \in TableSet : load_state[t] \in {"ok", "failed", "skipped"}

C25_Witness ==
    /\ PoolLoadReturned
    /\ load_state = [airlines |-> "ok", airports |-> "failed", flights |-> "ok"]
    /\ load_table = "airlines"
    /\ srv[db_name].rows["airlines"] = srv_load0[db_name].rows["airlines"] + MaxRows
    /\ returns[Len(returns)] = [op |-> "load", ok |-> FALSE]

\* the benchmark finds no queries folder or no .sql file in it
QueriesAbsent == l_pc = "idle" /\ (~folder_exists \/ SqlFilesOf(listing) = <<>>)

\* the loader finds no csv directory or not all of the three files
CsvAbsent == l_pc # "idle" /\ ~(REQUIRED_CSV_FILES \subseteq csv_files)

\* an operation of the loader that talks to the backend has begun
LoaderConnected ==
    \/ l_trace # <<>>
    \/ returns # <<>>
    \/ polled
    \/ ext_cmds > 0
    \/ ddl_executed > 0
    \/ load_calls > 0

\* the benchmark is at, or past, the point where it connects
BenchConnected == pc \notin {"start", "done"} \/ conn # 0 \/ open_conns # {} \/ downgrades > 0

\* C26: both programs check their inputs first: nothing has connected
\* while the check is pending, and when the csv files (loader) or the
\* queries folder and its .sql files (benchmark) are absent the run goes
\* from the check to exit status 1 without ever connecting.
C26_InputsCheckedBeforeConnecting ==
    /\ (l_pc = "idle" /\ pc = "start") => ~BenchConnected
    /\ l_pc = "start" => ~LoaderConnected
    /\ QueriesAbsent =>
          /\ ~BenchConnected
          /\ pc = "done" => exit_code = 1
    /\ CsvAbsent =>
          /\ l_pc \in {"start", "done"}
          /\ ~LoaderConnected
          /\ l_pc = "done" => l_exit = 1

C26_Witness ==
    /\ CsvAbsent
    /\ database = "clickhouse"
    /\ csv_files # {}
    /\ l_pc = "done"
    /\ l_exit = 1

\* C27: the configuration is never modified after it was constructed: no
\* step of the loader changes the credentials of its DatabaseConfig, and no
\* step of the benchmark runner changes the user of its db_config.
C27_ConfigNeverModified == [][config' = config /\ db_user' = db_user]_vars

\* C28: when the benchmark run has ended, every connection and every
\* cursor it opened has been closed.
C28_EverythingClosedAtEnd == pc = "done" => (open_conns = {} /\ open_cursors = {})

\* every step of main that the run had to take has returned normally
AllStepsSucceeded ==
    /\ REQUIRED_CSV_FILES \subseteq csv_files
    /\ l_ready = "true"
    /\ [op |-> "probe", ok |-> TRUE] \in SeqToSet(returns)
    /\ skip_schema \/ [op |-> "schema", ok |-> TRUE] \in SeqToSet(returns)
    /\ [op |-> "load", ok |-> TRUE] \in SeqToSet(returns)
    /\ \A t \in TableSet : load_state[t] # "failed"
    /\ database = "tidb" => [op |-> "post", ok |-> TRUE] \in SeqToSet(returns)
    /\ \A i \in 1..Len(returns) : returns[i].ok

\* C29: the loader exits with status 0 only when the csv files were
\* found, the readiness check, the schema setup (unless skipped), every
\* table load and the post-load step succeeded, and no interrupt signal
\* arrived during the run.
C29_ExitZeroOnlyOnFullSuccess ==
    (l_pc = "done" /\ l_exit = 0) => (AllStepsSucceeded /\ sigint # "raised")

\* C30: when the summary is printed, every file of the discovered list is
\* in exactly one of successful_queries and failed_queries, once: the lists
\* are disjoint and together hold all the files.
C30_SummaryCoversEveryFile ==
    summary_printed =>
        /\ SeqToSet(successful_queries) \cap SeqToSet(failed_queries) = {}
        /\ SeqToSet(successful_queries) \cup SeqToSet(failed_queries) = SeqToSet(sql_files)
        /\ Len(successful_queries) + Len(failed_queries) = Len(sql_files)

\* ---- claims C31..C40 ----

\* weights of the ranking of a run: an attempt outweighs its statements, a
\* file its attempts, a pass its files
WeightAttempt == MaxStmts + 1
WeightFile == (MAX_RETRIES + 1) * WeightAttempt + 2
WeightPass == (MaxFiles + 2) * WeightFile

\* what is left of the current pass, by position in the code
LeftOfPass ==
    LET files == (Len(sql_files) + 1 - idx) * WeightFile
    IN  CASE pc = "connect" -> (Len(sql_files) + 1) * WeightFile + 1
          [] pc = "loop"    -> files
          [] pc = "attempt" -> files - 1 - attempt * WeightAttempt
          [] pc = "stmt"    -> files - 1 - attempt * WeightAttempt - stmt
          [] OTHER          -> 0

\* what is left of the run: it decreases with every step the run takes
LeftOfRun ==
    CASE pc = "start" -> 2 * WeightPass + 2
      [] pc = "done"  -> 0
      [] OTHER        -> 1 + (1 - restarts) * WeightPass + LeftOfPass

\* C31: a benchmark run terminates (a natural number decreases with every
\* step, and a run that has not ended can take a step); within a pass a
\* file is attempted at most MAX_RETRIES times and there is at most one
\* fallback pass after the primary pass, so a file is attempted at most
\* 2 * MAX_RETRIES times.
C31_RunTerminates ==
    /\ [](/\ attempt + 1 <= MAX_RETRIES
          /\ restarts <= 1
          /\ (pass = "restart") = (restarts = 1)
          /\ last # NoRecord => last.tries <= MAX_RETRIES
          /\ (restarts + 1) * MAX_RETRIES <= 2 * MAX_RETRIES
          /\ LeftOfRun \in Nat
          /\ pc # "done" => ENABLED Next)
    /\ [][LeftOfRun' < LeftOfRun]_vars

\* a run that ended after a fallback pass in which a file used every attempt
C31_Witness ==
    /\ pc = "done"
    /\ restarts = 1
    /\ last # NoRecord
    /\ last.tries = MAX_RETRIES

\* C32: during the benchmark phase at most one database connection is open
\* at any time: a connection is opened only when no other one is open.
C32_AtMostOneConnection == Cardinality(open_conns) <= 1

\* what a step of execute_query_with_retry may do to the statement position
\* and to the commits of the file
StatementStep ==
    /\ (pc = "stmt" /\ pc' = "stmt") =>
          (stmt' = stmt + 1 /\ commits' = commits + 1 /\ attempt' = attempt)
    /\ (pc = "stmt" /\ pc' = "attempt") =>
          (attempt' = attempt + 1 /\ stmt' = stmt /\ commits' = commits)
    /\ (pc = "attempt" /\ pc' = "stmt") =>
          (stmt' = 1 /\ commits' = commits /\ attempt' = attempt)
    /\ Len(successful_queries') > Len(successful_queries) =>
          \/ pc = "stmt" /\ stmt = nstmts
          \/ pc = "attempt" /\ nstmts = 0

\* C33: statements run in order with a commit after each; a failure at
\* statement k ends the attempt and leaves the commits made before k in
\* place; the next attempt starts again at statement 1; a file is recorded
\* as successful only by the step that ends an attempt which executed every
\* statement of the file.
C33_RetryRestartsFromFirstStatement ==
    /\ []((pc \in {"stmt", "attempt"}) =>
            /\ stmt \in 1..(nstmts + 1)
            /\ pc = "stmt" => stmt <= nstmts
            /\ commits >= stmt - 1)
    /\ [][StatementStep]_vars

\* the second attempt is at statement 2 after the first attempt committed
\* statement 1 and failed at statement 2: statement 1 was committed twice
C33_Witness ==
    /\ pc = "stmt"
    /\ attempt = 1
    /\ stmt = 2
    /\ commits = 2

\* the position in l_trace of the first call of load_data (0: none)
FirstLoad ==
    IF \E i \in 1..Len(l_trace) : l_trace[i] = "load"
    THEN CHOOSE i \in 1..Len(l_trace) :
            l_trace[i] = "load" /\ \A j \in 1..(i - 1) : l_trace[j] # "load"
    ELSE 0

\* C34: without the skip-schema flag a load is attempted only after
\* create_database_and_tables has returned normally, and the tables the
\* load targets exist when it begins; with the flag no DDL statement is
\* issued and load_data is the call that follows the readiness check.
C34_SchemaBeforeLoad ==
    load_calls > 0 =>
        IF skip_schema
        THEN /\ ddl_executed = 0
             /\ ddl_log = <<>>
             /\ \A i \in 1..Len(l_trace) : l_trace[i] # "schema"
             /\ FirstLoad > 1 /\ l_trace[FirstLoad - 1] = "readiness"
        ELSE /\ [op |-> "schema", ok |-> TRUE] \in SeqToSet(returns)
             /\ FirstLoad > 1 /\ l_trace[FirstLoad - 1] = "schema"
             /\ \A t \in TableSet : srv_load0[LoadDb(loader, db_name)].rows[t] >= 0

\* the same, for the backends whose load targets the database of the schema setup
C34_ExceptTidb == (loader # "tidb") => C34_SchemaBeforeLoad

\* the order of the calls alone, for every backend
C34_CallOrder ==
    load_calls > 0 =>
        IF skip_schema
        THEN /\ ddl_executed = 0
             /\ \A i \in 1..Len(l_trace) : l_trace[i] # "schema"
             /\ FirstLoad > 1 /\ l_trace[FirstLoad - 1] = "readiness"
        ELSE /\ [op |-> "schema", ok |-> TRUE] \in SeqToSet(returns)
             /\ FirstLoad > 1 /\ l_trace[FirstLoad - 1] = "schema"

\* a step of the readiness wait of main that calls test_connection
MainPollStep == caller = "main" /\ l_pc = "poll" /\ probe_obs' # NoObs /\ polled'

\* C35: the readiness wait of main runs with the timeout of the command
\* line, for every backend that polls: test_connection is called only
\* while fewer seconds than that have elapsed.
C35_CliTimeoutBoundsEveryWait ==
    /\ []((caller = "main" /\ l_pc = "poll") => timeout = connection_timeout)
    /\ [][MainPollStep => clock < connection_timeout]_vars

\* the same, for the backends main passes the timeout to
C35_ExceptTidb ==
    /\ []((caller = "main" /\ l_pc = "poll" /\ loader # "tidb") =>
            timeout = connection_timeout)
    /\ [][(MainPollStep /\ loader # "tidb") => clock < connection_timeout]_vars

\* the database of the schema setup, of the table loads and of the row
\* counts is the configured one
SameTargetDatabase ==
    /\ SchemaDb(loader, db_name) = db_name
    /\ LoadDb(loader, db_name) = SchemaDb(loader, db_name)
    /\ CountDb(loader, db_name) = LoadDb(loader, db_name)

\* C36: in a run with schema setup, the three tables are in the configured
\* database when the setup has returned, and the table loads and the row
\* counts of the run target that database.
C36_OneTargetDatabase ==
    ~skip_schema =>
        /\ l_pc = "load" => \A t \in TableSet : srv[db_name].rows[t] >= 0
        /\ load_calls > 0 => SameTargetDatabase

\* the same, for the backends that name config.database throughout
C36_ExceptHardCoded ==
    loader \notin {"columnstore", "tidb"} => C36_OneTargetDatabase

\* the class of an error, by the patterns its message matches
TransientMessage(e) == e.mem \/ e.to

AuthorizationMessage(e) == e.auth /\ ~TransientMessage(e)

\* the except clause has taken its branch for the error `caught`
Handled == pc \in {"retry", "exhausted", "raise", "error"}

\* C37: the except clause classifies by fixed priority: a message with a
\* memory or timeout pattern is handled as transient whether or not it also
\* has an authorization pattern; the authorization branch is taken only for
\* a non-transient message; a message with no pattern is handled as
\* 'other'; each error gets exactly one kind and one branch.
C37_FixedPriorityClassification ==
    Handled =>
        /\ TransientMessage(caught) <=> pc \in {"retry", "exhausted"}
        /\ TransientMessage(caught) <=> errs[1] \in TransientKinds
        /\ pc = "raise" => AuthorizationMessage(caught)
        /\ AuthorizationMessage(caught) <=> errs[1] \in {"auth", "auth_primary"}
        /\ (~TransientMessage(caught) /\ ~AuthorizationMessage(caught)) <=>
               errs[1] = "other"
        /\ errs[1] = "other" => pc = "error"
        /\ Len(errs) = 1

\* a message with a memory pattern and an authorization pattern, raised
\* under 'root', was handled as transient
C37_Witness ==
    /\ Handled
    /\ caught.mem /\ caught.auth
    /\ db_user = "root"
    /\ pc = "retry"

\* C38: no statement is executed on a connection on which a memory-limit
\* error was raised: when a statement is about to run, self.conn is a
\* connection that has met no such error.
C38_TaintedConnectionNotReused == pc = "stmt" => ~tainted

\* the last table load imported its data and the row count after it failed
CountFailedAfterImport ==
    /\ load_obs # NoLoadObs
    /\ Ingested(loader, load_obs)
    /\ ~load_obs.count_ok

\* the tables the last table load was for (the import tool of TiDB loads
\* the three of them in one run)
LastLoaded == IF load_table = "none" THEN TableSet ELSE {load_table}

\* C39: for every backend, a row count that fails after the data of a
\* table was imported does not make the table load a failed load.
C39_CountFailureNeverFailsLoad ==
    CountFailedAfterImport => \A t \in LastLoaded : load_state[t] # "failed"

\* the same, for the loaders that wrap the count in try / except Exception
C39_ExceptClickHouse == (loader # "clickhouse") => C39_CountFailureNeverFailsLoad

\* what a step may do to the working directory: load_data of the TiDB
\* loader notes it when it enters its try block, every way out of the block
\* goes back to the noted directory, and no other step changes it
WorkingDirectoryStep ==
    /\ (l_pc # "import" /\ l_pc' = "import") => original_cwd' = cwd
    /\ (l_pc = "import" /\ l_pc' # "import") => cwd' = original_cwd
    /\ (l_pc # "import" /\ l_pc' # "import") => cwd' = cwd

\* C40: load_data of the TiDB loader leaves the working directory as it
\* found it on every exit path: normal return, a non-zero exit code of the
\* import tool, an exception while the tool is started or read.
C40_WorkingDirectoryRestored == [][WorkingDirectoryStep]_vars

\* load_data was entered in another directory than the project root, the
\* import tool ended with a non-zero code, load_data raised, and the
\* directory is the one on entry
C40_Witness ==
    /\ loader = "tidb"
    /\ load_calls = 1
    /\ l_pc = "done"
    /\ l_exit = 1
    /\ original_cwd = "elsewhere"
    /\ load_obs.transport
    /\ load_obs.rc # 0
    /\ cwd = "elsewhere"

====
